---- MODULE Spec2Model ----
(***************************************************************************)
(* Model of the reliable delivery monitor (reliable_monitor.py): the       *)
(* ReliableMessageStore, the HealthChecker, and the tasks started by       *)
(* ReliableMonitor.run(): the control loop, the health-check loop, the     *)
(* retry sweep and the cleanup sweep.                                      *)
(*                                                                         *)
(* The tasks are asyncio coroutines on one event loop: code between two    *)
(* awaits runs atomically.  Every action below is one such stretch, or a   *)
(* prefix of one (a finer grain only adds interleavings).                  *)
(*                                                                         *)
(* Time is the integer variable now, in seconds.  time.time() and          *)
(* datetime.now() both read it.  Tick advances it; nothing forces it to    *)
(* advance, so two reads can see the same value.                           *)
(***************************************************************************)
EXTENDS Integers, Sequences, FiniteSets, TLC

VARIABLES
    store,                  \* messages table: id -> row
    now,                    \* wall clock, seconds
    ticks,                  \* number of Tick steps taken (bounds the clock)
    pc,                     \* position of the control loop (run)
    queue,                  \* pending_messages still to visit in the drain pass
    cur,                    \* message held by _process_single_message
    send_attempt,           \* loop index of _send_response_reliably
    lock,                   \* MCPClient._current_request_label: the request
                            \* that holds the guard, "free" for None
    request_lock,           \* MCPClient._request_lock.locked()
    long_poll_active,       \* MCPClient._long_poll_active
    hpc,                    \* position of run_health_checks
    hb,                     \* position of MCPClient._heartbeat_loop
    connected,              \* MCPClient._connected, as connect(), the
                            \* reconnect and the heartbeat leave it
    connect_attempt,        \* loop index of _reliable_connect
    last_successful_check,  \* HealthChecker.last_successful_check
    consecutive_failures,   \* HealthChecker.consecutive_failures
    last_wait_success,      \* ReliableMonitor.last_wait_success
    last_attempt,           \* history: id -> time of the last failed attempt
    plugin_calls,           \* history: id -> number of plugin.process_message
                            \* calls, for every id ever stored
    last_probe,             \* history: how the last health_check ended
    response,               \* the plugin response given to
                            \* _enforce_conversation_protocol
    dispatched,             \* <<the text it returns for dispatch>>, <<>>
                            \* before it has run
    self_mention_violation_count,
                            \* ReliableMonitor.self_mention_violation_count
    run_pc,                 \* shutdown: position of run (loop, request,
                            \* gather, disconnect, returned)
    task_state,             \* shutdown: position of each background task
    cancel_requested,       \* shutdown: tasks ("run" for the task of run)
                            \* whose cancel() is not yet delivered
    run_exit,               \* shutdown: why run left its loop, "none"
                            \* while it is in it
    disconnect_attempted,   \* shutdown: the finally block of run has called
                            \* client.disconnect()
    backoff_call,           \* backoff: the arguments of the last call of
                            \* ExponentialBackoff.get_delay
    backoff_result,         \* backoff: what that call returned or raised
    hm_pc,                  \* heartbeat monitor: position of monitor_loop
    hm_cur,                 \* heartbeat monitor: the payload in hand
    hm_store,               \* heartbeat monitor: rows of its MessageStore,
                            \* by id
    seen_ids,               \* heartbeat monitor: seen_ids of monitor_loop
    hm_received,            \* heartbeat monitor: payloads received so far
    hm_plugin_calls,        \* history: ids given to plugin.process_message
    hm_sends,               \* history: ids a send request was issued for
    plugin_enabled,         \* heartbeat monitor: plugin_enabled and plugin
    backlog,                \* message_store.py: rows of MessageStore, in
                            \* order of arrival
    handed,                 \* message_store.py: ids get_pending_messages
                            \* gave each consumer, not yet started
    working,                \* message_store.py: ids each consumer marked
                            \* started and is processing
    judge_text,             \* evaluation: the judge output given to
                            \* parse_verdict
    verdict,                \* evaluation: what parse_verdict returned or
                            \* raised
    qsize,                  \* simple_working_monitor: jobs waiting in the MessageQueue
    unfinished,             \* simple_working_monitor: _unfinished_tasks of its asyncio.Queue
    worker_pc,              \* simple_working_monitor: position of queue_worker
    retrieved,              \* history: jobs queue_worker has retrieved
    task_done_calls,        \* history: calls of task_done that returned
    drain_pc,               \* message_queue.py: position of a caller of
                            \* drain
    mcp_client,             \* MCPClient: _connected, session, _stream_ctx,
                            \* _heartbeat_task, _lock
    client_call,            \* MCPClient: the check_messages or send_message
                            \* call in progress
    keys_sent,              \* history: idempotency keys of the requests of
                            \* that call, in the order sent
    calls_made              \* history: calls of check_messages and
                            \* send_message so far

vars == <<store, now, ticks, pc, queue, cur, send_attempt, lock,
          request_lock, long_poll_active, hpc, hb, connected,
          connect_attempt, last_successful_check, consecutive_failures,
          last_wait_success, last_attempt, plugin_calls, last_probe,
          response, dispatched, self_mention_violation_count,
          run_pc, run_exit, task_state, cancel_requested,
          disconnect_attempted, backoff_call, backoff_result,
          hm_pc, hm_cur, hm_store, seen_ids, hm_received, hm_plugin_calls,
          hm_sends, plugin_enabled,
          backlog, handed, working,
          judge_text, verdict,
          qsize, unfinished, worker_pc, retrieved, task_done_calls,
          drain_pc,
          mcp_client, client_call, keys_sent, calls_made>>

\* the state of the control loop, the health-check task, the sweeps and the
\* client
monitor_vars == <<store, now, ticks, pc, queue, cur, send_attempt, lock,
                  request_lock, long_poll_active, hpc, hb, connected,
                  connect_attempt, last_successful_check,
                  consecutive_failures, last_wait_success, last_attempt,
                  plugin_calls, last_probe>>

\* the state of the self-mention guard
guard_vars == <<response, dispatched, self_mention_violation_count>>

\* the state of the shutdown of run
shutdown_vars == <<run_pc, run_exit, task_state, cancel_requested,
                   disconnect_attempted>>

\* the state of the parts that are checked on their own; the steps of the
\* monitor above leave it alone
\* the state of the calls of ExponentialBackoff.get_delay
backoff_vars == <<backoff_call, backoff_result>>

\* the state of monitor_loop of the heartbeat monitor
hm_vars == <<hm_pc, hm_cur, hm_store, seen_ids, hm_received,
             hm_plugin_calls, hm_sends, plugin_enabled>>

\* the state of the MessageStore of message_store.py and of its consumers
backlog_vars == <<backlog, handed, working>>

\* the state of the calls of parse_verdict
verdict_vars == <<judge_text, verdict>>

\* the state of the MessageQueue and queue_worker of simple_working_monitor
worker_vars == <<qsize, unfinished, worker_pc, retrieved, task_done_calls,
                 drain_pc>>

\* the state of one MCPClient and of the call its owner makes on it
link_vars == <<mcp_client, client_call, keys_sent, calls_made>>

fn_vars == <<guard_vars, shutdown_vars, backoff_vars, hm_vars,
             backlog_vars,
             verdict_vars,
             worker_vars,
             link_vars>>

(***************************************************************************)
(* Bounds of the model.                                                    *)
(***************************************************************************)
\* rows ever stored: under Spec, and under StoreSpec
MaxMsgs == 1
MaxMsgsStore == 2
MaxFailureCount == 3
MaxTicks == 1
MaxLen == 4
MaxViolations == 3
MaxAttempt == 20
MaxLines == 1
MaxHmMsgs == 2
MaxBacklog == 2
MaxJobs == 4
MaxCalls == 3

\* Seconds the clock can advance by in one Tick.
TickSteps == {1, 300, 301, 86401}

(***************************************************************************)
(* Program constants.                                                      *)
(***************************************************************************)
max_retries == 5
message_timeout == 300
max_failures == 3
check_interval == 60
max_attempts == 3
base_delay == 1
max_delay == 300
multiplier == 2
retention_hours == 24

AgentHandle == "@agent"

None == "None"
NoTime == -1
NoData == <<>>

(***************************************************************************)
(* Raw long-poll payloads, as sequences of tokens.  "NL" is a newline,     *)
(* "CHECKMARK" the check-mark emoji of the wait banner, "BULLET" the       *)
(* bullet character.  No token holds a backslash.                          *)
(***************************************************************************)
PayloadBob == <<"CHECKMARK", "WAIT", "SUCCESS", "NL", "BULLET", "@bob", ":", "hi", "@agent">>
PayloadNoAuthor == <<":", "hi", "@agent">>
PayloadNoMention == <<"BULLET", "@bob", ":", "hello">>

\* the banner of a long poll that ended with no mention for the agent
PayloadWaitTimeout == <<"WAIT", "TIMEOUT">>

Payloads == {PayloadBob, PayloadNoAuthor, PayloadNoMention, PayloadWaitTimeout}

Handles == {"@bob", "@agent"}
Words == {"WAIT", "SUCCESS", "hi", "hello", "unknown"}

(***************************************************************************)
(* Mention parser.                                                         *)
(***************************************************************************)
RECURSIVE FirstIn(_, _)
\* first element of seq s that is in set S, or None
FirstIn(s, S) ==
    IF s = <<>> THEN None
    ELSE IF Head(s) \in S THEN Head(s) ELSE FirstIn(Tail(s), S)

RECURSIVE IndexOf(_, _, _)
\* index of the first occurrence of token t in s at or after i, 0 if none
IndexOf(s, t, i) ==
    IF i > Len(s) THEN 0
    ELSE IF s[i] = t THEN i ELSE IndexOf(s, t, i + 1)

RECURSIVE StripEnds(_, _)
\* str.strip(chars) on tokens: drop leading and trailing tokens in S
StripEnds(s, S) ==
    IF s = <<>> THEN s
    ELSE IF Head(s) \in S THEN StripEnds(Tail(s), S)
    ELSE IF s[Len(s)] \in S THEN StripEnds(SubSeq(s, 1, Len(s) - 1), S)
    ELSE s

\* _extract_sender_handle
extract_sender_handle(author) ==
    LET match == FirstIn(author, Handles)
        base  == SelectSeq(author, LAMBDA t : t \notin {"BULLET", "-", "NL"})
        first == IF base = <<>> THEN None ELSE Head(base)
    IN  IF match # None THEN match
        ELSE IF first \in Words \ {"unknown"} THEN "@" \o first
        ELSE "@unknown"

\* _parse_message: <<parsed_author, parsed_mention, sender_handle>>.
\* Strategy 1 cannot match: the payload is split on backslash-n and the line
\* pattern requires a literal backslash, and no token holds one.  Strategy 2
\* sees the whole payload as one line.
parse_message(raw) ==
    IF AgentHandle \in {raw[i] : i \in 1..Len(raw)}
    THEN LET colon  == IndexOf(raw, ":", 1)
             author == IF colon = 0 THEN <<"unknown">>
                       ELSE StripEnds(SubSeq(raw, 1, colon - 1), {"BULLET", "-"})
         IN  <<author, raw, extract_sender_handle(author)>>
    ELSE <<<<>>, <<>>, None>>

\* Mutant of is_mention_for_us: every message counts as a mention.
is_mention_for_us_always(mention) == TRUE

\* _is_mention_for_us
is_mention_for_us(mention) ==
    AgentHandle \in {mention[i] : i \in 1..Len(mention)}

\* _resolve_sender_handle: a handle, or the author text
resolve_sender_handle(m) ==
    LET sender == IF m.sender_handle = None THEN "@unknown" ELSE m.sender_handle
        other  == FirstIn(m.parsed_mention, Handles \ {AgentHandle})
        author == StripEnds(m.parsed_author, {"NL"})
    IN  IF sender # "@unknown" THEN sender
        ELSE IF other # None THEN other
        ELSE IF author # <<>> /\ Head(author) # "CHECKMARK" THEN author
        ELSE sender

(***************************************************************************)
(* ExponentialBackoff.get_delay, in milliseconds.  u in {-1, 0, 1} picks   *)
(* the jitter -25%, 0, +25%.                                               *)
(***************************************************************************)
Min(a, b) == IF a < b THEN a ELSE b
Max(a, b) == IF a > b THEN a ELSE b

RECURSIVE Pow(_, _)
Pow(b, e) == IF e = 0 THEN 1 ELSE b * Pow(b, e - 1)

JitterChoices == {-1, 0, 1}

get_delay(retry_count, u) ==
    LET delay == Min(base_delay * Pow(multiplier, retry_count), max_delay) * 1000
    IN  Max(delay + u * (delay \div 4), 100)

(***************************************************************************)
(* ReliableMessageStore                                                    *)
(***************************************************************************)
\* _generate_message_id: sha256 of "<content>:<time.time()>", taken to be
\* injective
generate_message_id(content, t) == <<content, t>>

\* _is_duplicate_message
is_duplicate_message(id) == id \in DOMAIN store

\* store_message: INSERT OR REPLACE
store_message(s, m) ==
    [i \in DOMAIN s \cup {m.id} |-> IF i = m.id THEN m ELSE s[i]]

\* Mutant of update_message_status: processed_at is stamped on every update.
update_message_status_stamps(s, id, status, err, t) ==
    [i \in DOMAIN s |->
        IF i = id
        THEN [s[i] EXCEPT !.status = status,
                          !.processed_at = t,
                          !.error_message = err]
        ELSE s[i]]

\* update_message_status
update_message_status(s, id, status, err, t) ==
    [i \in DOMAIN s |->
        IF i = id
        THEN [s[i] EXCEPT !.status = status,
                          !.processed_at =
                              IF status \in {"completed", "dead_letter"}
                              THEN t ELSE NoTime,
                          !.error_message = err]
        ELSE s[i]]

\* increment_retry_count
increment_retry_count(s, id) ==
    [i \in DOMAIN s |->
        IF i = id THEN [s[i] EXCEPT !.retry_count = @ + 1] ELSE s[i]]

\* Mutant of pending_ids: the SELECT leaves the failed rows to the retry
\* sweep.
pending_ids_only == {i \in DOMAIN store : store[i].status = "pending"}

\* get_pending_messages: the ids its SELECT matches
pending_ids_and_completed ==
    {i \in DOMAIN store :
        store[i].status \in {"pending", "failed", "completed"}}

pending_ids == {i \in DOMAIN store : store[i].status \in {"pending", "failed"}}

\* get_pending_messages: the rows ORDER BY created_at ASC (ties in any order)
\* Mutant of get_pending_messages: the SELECT has no ORDER BY.
get_pending_messages_unordered ==
    {q \in [1..Cardinality(pending_ids) -> {store[i] : i \in pending_ids}] :
        \A a, b \in DOMAIN q : a # b => q[a] # q[b]}

\* get_pending_messages: the rows of its SELECT, ORDER BY created_at ASC (rows
\* with equal created_at in any order)
get_pending_messages ==
    {q \in [1..Cardinality(pending_ids) -> {store[i] : i \in pending_ids}] :
        /\ \A a, b \in DOMAIN q : a # b => q[a] # q[b]
        /\ \A a, b \in DOMAIN q : a < b => q[a].created_at <= q[b].created_at}

NoMessage == [id |-> <<>>]

(***************************************************************************)
(* HealthChecker                                                           *)
(***************************************************************************)
\* is_healthy
\* Mutant of is_healthy: the failure count that trips it is one too high.
is_healthy_lenient ==
    /\ consecutive_failures <= max_failures
    /\ now - last_successful_check < check_interval * 2

\* HealthChecker.is_healthy
is_healthy ==
    /\ consecutive_failures < max_failures
    /\ now - last_successful_check < check_interval * 2

\* has_inflight_request
has_inflight_request == request_lock

\* A connect() that met an exception waits for ever for MCPClient._lock,
\* which it holds itself (its except branch awaits disconnect()); every later
\* connect() of any task waits for that lock too.
connect_stuck == pc = "hung" \/ hpc = "hung"

\* connect() at the start of the attempt of check_messages or send_message
\* that issues the request: it returned True
client_connect ==
    /\ ~connect_stuck
    /\ connected' = TRUE

\* Mutant of request_guard_enter: the guard does not wait for the lock.
request_guard_enter_nowait(label, long_poll) ==
    /\ request_lock' = TRUE
    /\ lock' = label
    /\ long_poll_active' = (long_poll \/ long_poll_active)

\* _request_guard up to its yield: the awaited _request_lock.acquire()
\* returns once the lock is free, then the label and the long-poll flag are
\* set
request_guard_enter(label, long_poll) ==
    /\ ~request_lock
    /\ request_lock' = TRUE
    /\ lock' = label
    /\ long_poll_active' = (long_poll \/ long_poll_active)

\* _request_guard: its finally block, run on every way out of the request
\* (return, exception, timeout, cancellation)
request_guard_exit(long_poll) ==
    /\ long_poll_active' = (long_poll_active /\ ~long_poll)
    /\ lock' = "free"
    /\ request_lock' = FALSE

\* no response has been given to the self-mention guard
GuardIdle ==
    /\ response = <<>>
    /\ dispatched = <<>>
    /\ self_mention_violation_count = 0

\* the background tasks created by run
Tasks == {"health_task", "retry_task", "cleanup_task"}

\* run has created its background tasks and is in its loop
ShutdownInit ==
    /\ run_pc = "loop"
    /\ run_exit = "none"
    /\ task_state = [t \in Tasks |-> "sleep"]
    /\ cancel_requested = {}
    /\ disconnect_attempted = FALSE

\* no call of get_delay yet
NoCall == [jitter |-> FALSE, retry_count |-> -1, u |-> 0]

NoResult == [raised |-> FALSE, delay |-> 0]

BackoffIdle ==
    /\ backoff_call = NoCall
    /\ backoff_result = NoResult

\* monitor_loop before its first long poll: nothing seen, an empty store
HmIdle ==
    /\ hm_pc = "wait"
    /\ hm_cur = <<>>
    /\ hm_store = <<>>
    /\ seen_ids = {}
    /\ hm_received = 0
    /\ hm_plugin_calls = {}
    /\ hm_sends = {}

Consumers == {"c1", "c2"}

\* the MessageStore of message_store.py: no row, nothing handed out
BacklogIdle ==
    /\ backlog = <<>>
    /\ handed = [c \in Consumers |-> {}]
    /\ working = [c \in Consumers |-> {}]

\* the parts outside the two monitors, before anything has happened
\* MCPClient: no check_messages or send_message call was made yet
NoCallYet == [op |-> "none", pc |-> "idle", attempt |-> 0, backoff |-> 0,
              idem_key |-> 0, result |-> "none"]

OthersIdle ==
    /\ BacklogIdle
    /\ judge_text = [block |-> "no call"]
    /\ verdict = [raised |-> "", winner |-> "", confidence |-> 0]
    /\ qsize = 0
    /\ unfinished = 0
    /\ worker_pc = "get"
    /\ retrieved = 0
    /\ task_done_calls = 0
    /\ drain_pc = "idle"
    /\ mcp_client = [connected |-> FALSE, session |-> "none",
                     stream_ctx |-> "none", heartbeat_task |-> "none",
                     lock |-> "free"]
    /\ client_call = NoCallYet
    /\ keys_sent = <<>>
    /\ calls_made = 0

FnInit ==
    /\ GuardIdle
    /\ ShutdownInit
    /\ BackoffIdle
    /\ HmIdle
    /\ plugin_enabled = FALSE
    /\ OthersIdle

\* the monitor after initialize()
MonitorInit ==
    /\ store = <<>>
    /\ now = 0
    /\ ticks = 0
    /\ pc = "top"
    /\ queue = <<>>
    /\ cur = NoMessage
    /\ send_attempt = 0
    /\ lock = "free"
    /\ request_lock = FALSE
    /\ long_poll_active = FALSE
    /\ hpc = "sleep"
    /\ hb = "sleep"
    /\ connected = TRUE
    /\ connect_attempt = 0
    /\ last_successful_check = 0
    /\ consecutive_failures = 0
    /\ last_wait_success = 0
    /\ last_attempt = <<>>
    /\ plugin_calls = <<>>
    /\ last_probe = "never"

Init == MonitorInit /\ FnInit

Tick ==
    /\ ticks < MaxTicks
    /\ \E d \in TickSteps : now' = now + d
    /\ ticks' = ticks + 1
    /\ UNCHANGED <<store, pc, queue, cur, send_attempt, lock, request_lock,
                   long_poll_active, hpc, hb, connected, connect_attempt,
                   last_successful_check, consecutive_failures,
                   last_wait_success, last_attempt, plugin_calls, last_probe, fn_vars>>

(***************************************************************************)
(* Control loop: ReliableMonitor.run                                       *)
(***************************************************************************)
\* Mutant of retries_exhausted: the test is off by one.
retries_exhausted_late(m) == m.retry_count > max_retries

\* _process_pending_messages: the retry test of the for loop
retries_exhausted(m) == m.retry_count >= max_retries

\* _process_pending_messages: the age test of the for loop
timed_out_inclusive(m) == now - m.created_at >= message_timeout

timed_out(m) == now - m.created_at > message_timeout

\* _parse_message on each payload the transport delivers
parsed == [raw \in Payloads |-> parse_message(raw)]

\* _process_single_message up to the plugin call: mark PROCESSING, parse and
\* write the snapshot back; the store, the message and the mention test
process_single_begin(s, m) ==
    LET s1 == update_message_status(s, m.id, "processing", None, now)
        p  == parsed[m.raw_content]
        m2 == IF m.parsed_mention = <<>>
              THEN [m EXCEPT !.parsed_author = p[1],
                             !.parsed_mention = p[2],
                             !.sender_handle = p[3]]
              ELSE m
    IN  [store   |-> IF m.parsed_mention = <<>> THEN store_message(s1, m2) ELSE s1,
         message |-> m2,
         mention |-> is_mention_for_us(m2.parsed_mention)]

RECURSIVE drain_pass(_, _, _)
\* _process_pending_messages: the for loop over the snapshot q from store s,
\* up to its next await: the plugin call for a message (pc "plugin"), or the
\* end of the loop (pc "poll").  calls counts the plugin calls.
drain_pass(s, q, calls) ==
    IF q = <<>>
    THEN [store |-> s, queue |-> q, pc |-> "poll", cur |-> NoMessage,
          plugin_calls |-> calls]
    ELSE LET m == Head(q)
             b == process_single_begin(s, m)
         IN  IF retries_exhausted(m)
             THEN drain_pass(update_message_status(s, m.id, "dead_letter",
                                 "Exceeded max retries (5)", now),
                             Tail(q), calls)
             ELSE IF timed_out(m)
             THEN drain_pass(update_message_status(s, m.id, "dead_letter",
                                 "Message timeout (300s)", now),
                             Tail(q), calls)
             ELSE IF ~b.mention
             THEN drain_pass(update_message_status(b.store, m.id, "completed",
                                 "Not a mention for this agent", now),
                             Tail(q), calls)
             ELSE [store |-> b.store, queue |-> Tail(q), pc |-> "plugin",
                   cur |-> b.message,
                   plugin_calls |-> [calls EXCEPT ![m.id] = @ + 1]]

\* the control loop runs the drain pass on from store s and snapshot q
continue_drain(s, q) ==
    \E r \in {drain_pass(s, q, plugin_calls)} :
        /\ store' = r.store
        /\ queue' = r.queue
        /\ pc' = r.pc
        /\ cur' = r.cur
        /\ plugin_calls' = r.plugin_calls

\* Mutant of LoopTop: run goes to the long poll without the drain pass.
LoopTop_skips_drain ==
    /\ pc = "top"
    /\ pc' = IF is_healthy THEN "poll" ELSE "reconnect_health"
    /\ UNCHANGED <<store, queue, cur, plugin_calls>>
    /\ UNCHANGED <<now, ticks, send_attempt, lock, request_lock,
                   long_poll_active, hpc, hb, connected, connect_attempt,
                   last_successful_check, consecutive_failures,
                   last_wait_success, last_attempt, last_probe, fn_vars>>

\* run: the loop body from its top (start of run, or asyncio.sleep(1) over):
\* the is_healthy test, then either the reconnect or the drain pass
LoopTop ==
    /\ pc = "top"
    /\ IF is_healthy
       THEN \E q \in get_pending_messages : continue_drain(store, q)
       ELSE /\ pc' = "reconnect_health"
            /\ UNCHANGED <<store, queue, cur, plugin_calls>>
    /\ UNCHANGED <<now, ticks, send_attempt, lock, request_lock,
                   long_poll_active, hpc, hb, connected, connect_attempt,
                   last_successful_check, consecutive_failures,
                   last_wait_success, last_attempt, last_probe, fn_vars>>

\* What an awaited client.connect() that has to open the transport can do:
\* return True (connected), return False (no access token), or never return
\* (an exception was met: its handler awaits disconnect(), which waits for
\* the lock connect() holds).  It does not raise.
ConnectOutcomes == {"true", "false", "hang"}

\* _reliable_connect: does the outcome of connect() reach its except branch
connect_raises(outcome) == outcome \notin ConnectOutcomes

\* _reliable_connect, called by _reliable_reconnect and by
\* initialize: the number of connect attempts it makes at most
max_connect_retries == 10

\* _check_new_messages: the timeout it asks of the long poll, in seconds (the
\* client caps it at MCPClient.long_poll_timeout, 1200 by default)
long_poll_wait == 300

\* _reliable_reconnect: client.disconnect(), then one pass of the loop of
\* _reliable_connect with the outcome of its connect(); when the loop
\* returns the health checker is reset.  Called from run (then the drain
\* pass follows) and from _maybe_recover_from_idle (then last_wait_success
\* is reset and run sleeps).
reliable_reconnect(outcome) ==
    /\ pc \in {"reconnect_health", "reconnect_idle"}
    /\ ~connect_stuck
    /\ connected' = (outcome = "true")
    /\ IF outcome = "hang"
       THEN /\ pc' = "hung"
            /\ UNCHANGED <<store, queue, cur, plugin_calls, connect_attempt,
                           last_successful_check, consecutive_failures,
                           last_wait_success>>
       ELSE IF connect_raises(outcome)
       THEN /\ pc' = IF connect_attempt = max_connect_retries - 1
                     THEN "crashed" ELSE pc
            /\ connect_attempt' = connect_attempt + 1
            /\ UNCHANGED <<store, queue, cur, plugin_calls,
                           last_successful_check, consecutive_failures,
                           last_wait_success>>
       ELSE /\ connect_attempt' = 0
            /\ last_successful_check' = now
            /\ consecutive_failures' = 0
            /\ IF pc = "reconnect_idle"
               THEN /\ last_wait_success' = now
                    /\ pc' = "top"
                    /\ UNCHANGED <<store, queue, cur, plugin_calls>>
               ELSE /\ last_wait_success' = last_wait_success
                    /\ \E q \in get_pending_messages : continue_drain(store, q)
    /\ UNCHANGED <<now, ticks, send_attempt, lock, request_lock,
                   long_poll_active, hpc, hb, last_attempt, last_probe, fn_vars>>

\* check_messages or send_message of the control loop never returns: the
\* request met a transport error (the guard is left, disconnect()), and the
\* connect() of the next attempt met one too
RequestHangs ==
    /\ pc \in {"polling", "sending"}
    /\ request_guard_exit(pc = "polling")
    /\ connected' = FALSE
    /\ pc' = "hung"
    /\ UNCHANGED <<store, now, ticks, queue, cur, send_attempt, hpc, hb,
                   connect_attempt, last_successful_check,
                   consecutive_failures, last_wait_success, last_attempt,
                   plugin_calls, last_probe, fn_vars>>

\* Mutant of record_failure: the retry count is not incremented.
record_failure_no_increment(s, id, err) ==
    update_message_status(s, id, "failed", err, now)

\* the FAILED outcome of _process_single_message
record_failure(s, id, err) ==
    update_message_status(increment_retry_count(s, id), id, "failed", err, now)

\* _process_single_message: the awaited plugin call returns a response
PluginReturns ==
    /\ pc = "plugin"
    /\ pc' = "send"
    /\ send_attempt' = 0
    /\ UNCHANGED <<store, now, ticks, queue, cur, lock, request_lock,
                   long_poll_active, hpc, hb, connected, connect_attempt,
                   last_successful_check, consecutive_failures,
                   last_wait_success, last_attempt, plugin_calls, last_probe, fn_vars>>

\* _process_single_message: the awaited plugin call raises; the drain pass
\* goes on
PluginRaises ==
    /\ pc = "plugin"
    /\ continue_drain(record_failure(store, cur.id, "plugin error"), queue)
    /\ last_attempt' = [last_attempt EXCEPT ![cur.id] = now]
    /\ UNCHANGED <<now, ticks, send_attempt, lock, request_lock,
                   long_poll_active, hpc, hb, connected, connect_attempt,
                   last_successful_check, consecutive_failures,
                   last_wait_success, last_probe, fn_vars>>

\* _send_response_reliably: client.send_message takes the request lock
SendStart ==
    /\ pc = "send"
    /\ client_connect
    /\ request_guard_enter("send", FALSE)
    /\ pc' = "sending"
    /\ UNCHANGED <<store, now, ticks, queue, cur, send_attempt, hpc, hb,
                   connect_attempt, last_successful_check,
                   consecutive_failures, last_wait_success, last_attempt,
                   plugin_calls, last_probe, fn_vars>>

\* Mutant of SendReturns: _send_response_reliably gives up after the first
\* attempt that fails.
SendReturns_single_attempt(ok) ==
    /\ pc = "sending"
    /\ request_guard_exit(FALSE)
    /\ IF ok
       THEN /\ continue_drain(update_message_status(store, cur.id, "completed",
                                                    None, now), queue)
            /\ UNCHANGED last_attempt
       ELSE /\ continue_drain(record_failure(store, cur.id,
                                             "Failed to send response"), queue)
            /\ last_attempt' = [last_attempt EXCEPT ![cur.id] = now]
    /\ send_attempt' = 0
    /\ UNCHANGED <<now, ticks, hpc, hb, connected, connect_attempt,
                   last_successful_check, consecutive_failures,
                   last_wait_success, last_probe, fn_vars>>

\* _send_response_reliably: client.send_message returns ok (True or False);
\* then the COMPLETED or FAILED outcome of _process_single_message and the
\* drain pass goes on
SendReturns(ok) ==
    /\ pc = "sending"
    /\ request_guard_exit(FALSE)
    /\ IF ok
       THEN /\ continue_drain(update_message_status(store, cur.id, "completed",
                                                    None, now), queue)
            /\ send_attempt' = 0
            /\ UNCHANGED last_attempt
       ELSE IF send_attempt + 1 < max_attempts
       THEN /\ send_attempt' = send_attempt + 1
            /\ pc' = "send"
            /\ UNCHANGED <<store, queue, cur, last_attempt, plugin_calls>>
       ELSE /\ continue_drain(record_failure(store, cur.id,
                                             "Failed to send response"), queue)
            /\ last_attempt' = [last_attempt EXCEPT ![cur.id] = now]
            /\ send_attempt' = 0
    /\ UNCHANGED <<now, ticks, hpc, hb, connected, connect_attempt,
                   last_successful_check, consecutive_failures,
                   last_wait_success, last_probe, fn_vars>>

\* _check_new_messages issues the long poll: client.check_messages(wait=True)
\* takes the request lock
PollStart ==
    /\ pc = "poll"
    /\ client_connect
    /\ request_guard_enter("poll", TRUE)
    /\ pc' = "polling"
    /\ UNCHANGED <<store, now, ticks, queue, cur, send_attempt, hpc, hb,
                   connect_attempt, last_successful_check,
                   consecutive_failures, last_wait_success, last_attempt,
                   plugin_calls, last_probe, fn_vars>>

\* _maybe_recover_from_idle, given the value lws of last_wait_success: where
\* run goes next
maybe_recover_from_idle(lws) ==
    IF now - lws < 90 THEN "top"
    ELSE IF now - lws >= Max(120, message_timeout \div 2) THEN "reconnect_idle"
    ELSE "top"

\* Mutant of new_message: the payload is parsed before it is stored.
new_message_parsed(message_id, messages) ==
    [id |-> message_id, raw_content |-> messages,
     parsed_author |-> parsed[messages][1],
     parsed_mention |-> parsed[messages][2],
     sender_handle |-> parsed[messages][3], status |-> "pending",
     created_at |-> now, processed_at |-> NoTime,
     retry_count |-> 0, error_message |-> None]

\* the row _check_new_messages stores for a new payload
new_message(message_id, messages) ==
    [id |-> message_id, raw_content |-> messages,
     parsed_author |-> <<>>, parsed_mention |-> <<>>,
     sender_handle |-> None, status |-> "pending",
     created_at |-> now, processed_at |-> NoTime,
     retry_count |-> 0, error_message |-> None]

\* _check_new_messages: the long poll returns the payload messages (NoData
\* for None); ingestion; then _maybe_recover_from_idle up to its first await.
\* cap bounds the number of rows ever stored.
PollReturns(messages, cap) ==
    /\ pc = "polling"
    /\ request_guard_exit(TRUE)
    /\ LET message_id == generate_message_id(messages, now) IN
        IF messages = NoData \/ is_duplicate_message(message_id)
        THEN /\ UNCHANGED <<store, last_wait_success, last_attempt,
                            plugin_calls>>
             /\ pc' = maybe_recover_from_idle(last_wait_success)
        ELSE /\ Cardinality(DOMAIN plugin_calls \cup {message_id}) <= cap
             /\ store' = store_message(store, new_message(message_id, messages))
             /\ last_attempt' = [i \in DOMAIN last_attempt \cup {message_id} |->
                    IF i = message_id THEN NoTime ELSE last_attempt[i]]
             /\ plugin_calls' = [i \in DOMAIN plugin_calls \cup {message_id} |->
                    IF i = message_id THEN 0 ELSE plugin_calls[i]]
             /\ last_wait_success' = now
             /\ pc' = maybe_recover_from_idle(now)
    /\ UNCHANGED <<now, ticks, queue, cur, send_attempt, hpc, hb, connected,
                   connect_attempt, last_successful_check,
                   consecutive_failures, last_probe, fn_vars>>

(***************************************************************************)
(* Health-check task: HealthChecker.run_health_checks                      *)
(***************************************************************************)
\* health_check: the success branches
health_success ==
    /\ last_successful_check' = now
    /\ consecutive_failures' = 0

\* health_check: the except branch
health_failure ==
    /\ consecutive_failures' = consecutive_failures + 1
    /\ last_successful_check' = last_successful_check

\* health_check after asyncio.sleep(check_interval): with a request in flight
\* it returns at once, else the probe client.check_messages(wait=False) takes
\* the request lock
HealthCheckStart ==
    /\ hpc = "sleep"
    /\ IF has_inflight_request
       THEN /\ health_success
            /\ last_probe' = "inflight"
            /\ UNCHANGED <<lock, request_lock, long_poll_active, hpc,
                           connected>>
       ELSE /\ client_connect
            /\ request_guard_enter("health", FALSE)
            /\ hpc' = "probing"
            /\ UNCHANGED <<last_successful_check, consecutive_failures,
                           last_probe>>
    /\ UNCHANGED <<store, now, ticks, pc, queue, cur, send_attempt, hb,
                   connect_attempt, last_wait_success, last_attempt,
                   plugin_calls, fn_vars>>

\* What the awaited client.check_messages can do: return text (the request
\* was answered), return None (every attempt failed on the transport and
\* was swallowed), or raise.
ProbeOutcomes == {"text", "none", "raise"}

\* health_check: does the outcome of check_messages reach the except branch
probe_fails(outcome) == outcome = "raise"

\* Mutant of HealthProbeReturns: a probe that fails marks the pending rows
\* FAILED.
HealthProbeReturns_fails_pending(outcome) ==
    /\ hpc = "probing"
    /\ request_guard_exit(FALSE)
    /\ hpc' = "sleep"
    /\ last_probe' = outcome
    /\ IF probe_fails(outcome)
       THEN /\ consecutive_failures < MaxFailureCount
            /\ health_failure
            /\ store' = [i \in DOMAIN store |->
                  IF store[i].status = "pending"
                  THEN [store[i] EXCEPT !.status = "failed",
                                        !.error_message = "transport error"]
                  ELSE store[i]]
       ELSE health_success /\ UNCHANGED store
    /\ UNCHANGED <<now, ticks, pc, queue, cur, send_attempt, hb,
                   connected, connect_attempt, last_wait_success,
                   last_attempt, plugin_calls, fn_vars>>

\* health_check: the probe is over
HealthProbeReturns(outcome) ==
    /\ hpc = "probing"
    /\ request_guard_exit(FALSE)
    /\ hpc' = "sleep"
    /\ last_probe' = outcome
    /\ IF probe_fails(outcome)
       THEN /\ consecutive_failures < MaxFailureCount
            /\ health_failure
       ELSE health_success
    /\ UNCHANGED <<store, now, ticks, pc, queue, cur, send_attempt, hb,
                   connected, connect_attempt, last_wait_success,
                   last_attempt, plugin_calls, fn_vars>>

\* health_check: the probe never returns (transport error, then the
\* connect() of the next attempt of check_messages met one too)
HealthProbeHangs ==
    /\ hpc = "probing"
    /\ request_guard_exit(FALSE)
    /\ connected' = FALSE
    /\ hpc' = "hung"
    /\ UNCHANGED <<store, now, ticks, pc, queue, cur, send_attempt, hb,
                   connect_attempt, last_successful_check,
                   consecutive_failures, last_wait_success, last_attempt,
                   plugin_calls, last_probe, fn_vars>>

(***************************************************************************)
(* Heartbeat task of the client: MCPClient._heartbeat_loop                 *)
(***************************************************************************)
\* How a ping ends: answered, an exception, the wait_for timeout (which
\* cancels _send_ping), or the cancellation of the heartbeat task by
\* disconnect().
PingOutcomes == {"ok", "raise", "timeout", "cancelled"}

\* _heartbeat_loop after asyncio.sleep(heartbeat_interval): _send_ping.  With
\* the lock taken the ping is skipped (no state changes), else it enters the
\* guard.
HeartbeatPing ==
    /\ hb = "sleep"
    /\ connected
    /\ ~request_lock
    /\ request_guard_enter("ping", FALSE)
    /\ hb' = "pinging"
    /\ UNCHANGED <<store, now, ticks, pc, queue, cur, send_attempt, hpc,
                   connected, connect_attempt,
                   last_successful_check, consecutive_failures,
                   last_wait_success, last_attempt, plugin_calls, last_probe, fn_vars>>

\* How disconnect() ends when the heartbeat task itself runs it:
\* _stop_heartbeat cancels the running task and returns, so the
\* CancelledError is delivered at the first await that suspends:
\* in session.__aexit__ ("in_session"), in _stream_ctx.__aexit__
\* ("in_stream"), or nowhere when neither suspends ("done").  Both except
\* clauses catch Exception only, so the CancelledError leaves disconnect().
TeardownOutcomes == {"done", "in_session", "in_stream"}

\* _send_ping is over: the guard is left; after anything but an answer the
\* heartbeat loop ends (it calls disconnect() and returns, or is cancelled).
\* _connected is cleared only by a disconnect() that gets to its end.
HeartbeatReturns(outcome, teardown) ==
    /\ hb = "pinging"
    /\ request_guard_exit(FALSE)
    /\ hb' = IF outcome = "ok" THEN "sleep" ELSE "stopped"
    /\ connected' = (connected /\ (\/ outcome \in {"ok", "cancelled"}
                                   \/ teardown # "done"))
    /\ UNCHANGED <<store, now, ticks, pc, queue, cur, send_attempt, hpc,
                   connect_attempt,
                   last_successful_check, consecutive_failures,
                   last_wait_success, last_attempt, plugin_calls, last_probe, fn_vars>>

\* connect(), called by the next check_messages or send_message:
\* _start_heartbeat starts a new heartbeat task
HeartbeatRestart ==
    /\ hb = "stopped"
    /\ connected
    /\ hb' = "sleep"
    /\ UNCHANGED <<store, now, ticks, pc, queue, cur, send_attempt, lock,
                   connected, connect_attempt,
                   request_lock, long_poll_active, hpc,
                   last_successful_check, consecutive_failures,
                   last_wait_success, last_attempt, plugin_calls, last_probe, fn_vars>>

(***************************************************************************)
(* Retry sweep and cleanup sweep                                           *)
(***************************************************************************)
\* Mutant of failed_messages: the SELECT takes every row that is given up
\* or failed.
failed_messages_and_dead ==
    {i \in DOMAIN store : store[i].status \in {"failed", "dead_letter"}}

\* _retry_failed_messages: the rows its SELECT returns
failed_messages ==
    {i \in DOMAIN store : /\ store[i].status = "failed"
                          /\ store[i].retry_count < max_retries}

\* _retry_failed_messages: is row i left alone because its delay, with
\* jitter u, has not passed since processed_at
retry_too_early(i, u) ==
    /\ store[i].processed_at # NoTime
    /\ (now - store[i].processed_at) * 1000 < get_delay(store[i].retry_count, u)

\* Mutant of requeue: the retry starts from a fresh count.
requeue_reset(row) == [row EXCEPT !.status = "pending", !.retry_count = 0]

\* _retry_failed_messages: the UPDATE that marks a row pending for retry
requeue(row) == [row EXCEPT !.status = "pending"]

\* _retry_failed_messages: one sweep after asyncio.sleep(30); jitter[i] is the
\* jitter drawn by get_delay for row i
RetrySweep ==
    /\ \E jitter \in [failed_messages -> JitterChoices] :
        store' = [i \in DOMAIN store |->
            IF i \in failed_messages /\ ~retry_too_early(i, jitter[i])
            THEN requeue(store[i])
            ELSE store[i]]
    /\ UNCHANGED <<now, ticks, pc, queue, cur, send_attempt, lock,
                   request_lock, long_poll_active, hpc, hb, connected,
                   connect_attempt, last_successful_check,
                   consecutive_failures, last_wait_success, last_attempt,
                   plugin_calls, last_probe, fn_vars>>

\* _cleanup_old_messages: the rows its DELETE removes
expired_messages_any_status ==
    {i \in DOMAIN store : /\ store[i].processed_at # NoTime
                          /\ store[i].processed_at < now - retention_hours * 3600}

expired_messages ==
    {i \in DOMAIN store : /\ store[i].status = "completed"
                          /\ store[i].processed_at # NoTime
                          /\ store[i].processed_at < now - retention_hours * 3600}

\* _cleanup_old_messages: one sweep after asyncio.sleep(3600)
Cleanup ==
    /\ store' = [i \in DOMAIN store \ expired_messages |-> store[i]]
    /\ UNCHANGED <<now, ticks, pc, queue, cur, send_attempt, lock,
                   request_lock, long_poll_active, hpc, hb, connected,
                   connect_attempt, last_successful_check,
                   consecutive_failures, last_wait_success, last_attempt,
                   plugin_calls, last_probe, fn_vars>>

(***************************************************************************)
(* Self-mention guard: ReliableMonitor._enforce_conversation_protocol.     *)
(* A text is a sequence of characters.  "a" and "A" are a letter in its    *)
(* two cases, "x" another word character, "@" and " " are not word         *)
(* characters.  "blocked" stands for the word characters of the redaction  *)
(* marker, "PENALTY" and "#protocol-violation" for the penalty note and    *)
(* its tag.                                                                *)
(***************************************************************************)
\* agent_handle_lower
agent_handle_lower == <<"@", "a">>

\* the characters a response is made of
Chars == {"@", "a", "A", "x", " "}

\* the class [0-9A-Za-z_\-] of the lookarounds of _self_handle_pattern
WordChars == {"a", "A", "x", "blocked"}

\* the plugin responses
Responses == UNION {[1..n -> Chars] : n \in 0..MaxLen}

\* str.lower() on one character
lower_char(c) == IF c = "A" THEN "a" ELSE c

\* str.lower()
lower(text) == [i \in 1..Len(text) |-> lower_char(text[i])]

\* _self_handle_pattern (re.IGNORECASE) matches text at position i: the
\* handle in either case, no word character before it and none after it
self_handle_match(text, i) ==
    LET n == Len(agent_handle_lower) IN
    /\ i + n - 1 <= Len(text)
    /\ \A k \in 1..n : lower_char(text[i + k - 1]) = agent_handle_lower[k]
    /\ i = 1 \/ text[i - 1] \notin WordChars
    /\ i + n > Len(text) \/ text[i + n] \notin WordChars

\* _self_handle_pattern.search(text) finds a match
self_handle_search(text) == \E i \in 1..Len(text) : self_handle_match(text, i)

\* the redaction marker '[self-mention-blocked]'
Marker == <<"[", "blocked", "]">>

RECURSIVE self_handle_sub(_, _)
\* _self_handle_pattern.sub(Marker, text) from position i on: the matches are
\* found left to right in text and do not overlap
self_handle_sub(text, i) ==
    IF i > Len(text) THEN <<>>
    ELSE IF self_handle_match(text, i)
    THEN Marker \o self_handle_sub(text, i + Len(agent_handle_lower))
    ELSE <<text[i]>> \o self_handle_sub(text, i + 1)

RECURSIVE rstrip(_)
\* str.rstrip()
rstrip(text) ==
    IF text # <<>> /\ text[Len(text)] \in {" ", "NL"}
    THEN rstrip(SubSeq(text, 1, Len(text) - 1))
    ELSE text

\* penalty_note, given the violation count
penalty_note(count) ==
    IF count >= 3 THEN <<"PENALTY", " ", "#protocol-violation">>
    ELSE <<"PENALTY">>

\* _enforce_conversation_protocol: the text returned and the violation count
enforce_conversation_protocol(resp, count) ==
    IF resp = <<>> THEN [text |-> resp, count |-> count]
    ELSE IF self_handle_search(lower(resp))
    THEN [text  |-> rstrip(self_handle_sub(resp, 1)) \o <<"NL">>
                       \o penalty_note(count + 1),
          count |-> count + 1]
    ELSE [text |-> resp, count |-> count]

\* _process_single_message: the response of the plugin goes through
\* _enforce_conversation_protocol
EnforceProtocol ==
    /\ dispatched = <<>>
    /\ LET r == enforce_conversation_protocol(response,
                                              self_mention_violation_count)
       IN  /\ r.count <= MaxViolations
           /\ dispatched' = <<r.text>>
           /\ self_mention_violation_count' = r.count
    /\ UNCHANGED <<monitor_vars, link_vars, worker_vars, verdict_vars, backlog_vars, shutdown_vars, backoff_vars, hm_vars, response>>

\* the plugin returns the response r for the next message
NextResponse(r) ==
    /\ dispatched # <<>>
    /\ response' = r
    /\ dispatched' = <<>>
    /\ UNCHANGED <<monitor_vars, link_vars, worker_vars, verdict_vars, backlog_vars, shutdown_vars, backoff_vars, hm_vars,
                   self_mention_violation_count>>

GuardInit ==
    /\ MonitorInit
    /\ ShutdownInit
    /\ BackoffIdle
    /\ HmIdle
    /\ plugin_enabled = FALSE
    /\ OthersIdle
    /\ response \in Responses
    /\ dispatched = <<>>
    /\ self_mention_violation_count = 0

GuardNext == EnforceProtocol \/ \E r \in Responses : NextResponse(r)

\* The self-mention guard applied to one plugin response after the other.
GuardSpec == GuardInit /\ [][GuardNext]_vars

(***************************************************************************)
(* Shutdown of ReliableMonitor.run: its try/except/finally around the loop *)
(* and the three background tasks it creates.  A task is at an await: in   *)
(* asyncio.sleep ("sleep"), or inside a request of the client ("request":  *)
(* check_messages or send_message, which catch asyncio.CancelledError and  *)
(* go on with their next attempt), or it is over ("done").                 *)
(***************************************************************************)
\* Why run leaves its loop: KeyboardInterrupt, an exception of the loop body,
\* or the cancellation of run delivered at an await outside the client.
ExitReasons == {"KeyboardInterrupt", "Exception", "CancelledError"}

\* the task that runs run() is cancelled from outside (the interrupt handler
\* of asyncio.run, or the caller); the CancelledError is delivered at the
\* next await of run
CancelRun ==
    /\ run_pc # "returned"
    /\ "run" \notin cancel_requested
    /\ cancel_requested' = cancel_requested \cup {"run"}
    /\ UNCHANGED <<monitor_vars, link_vars, worker_vars, verdict_vars, backlog_vars, guard_vars, backoff_vars, hm_vars, run_pc, run_exit, task_state,
                   disconnect_attempted>>

\* run: the loop starts to await a request of the client (the long poll or a
\* send), or that request is over
RunRequest ==
    /\ run_pc \in {"loop", "request"}
    /\ "run" \notin cancel_requested
    /\ run_pc' = IF run_pc = "loop" THEN "request" ELSE "loop"
    /\ UNCHANGED <<monitor_vars, link_vars, worker_vars, verdict_vars, backlog_vars, guard_vars, backoff_vars, hm_vars, run_exit, task_state,
                   cancel_requested, disconnect_attempted>>

\* run: the cancellation of run is delivered inside check_messages or
\* send_message, which catches it and goes on with its next attempt: the loop
\* goes on
RunCancelSwallowed ==
    /\ run_pc = "request"
    /\ "run" \in cancel_requested
    /\ cancel_requested' = cancel_requested \ {"run"}
    /\ UNCHANGED <<monitor_vars, link_vars, worker_vars, verdict_vars, backlog_vars, guard_vars, backoff_vars, hm_vars, run_pc, run_exit, task_state,
                   disconnect_attempted>>

\* run leaves the loop: the finally block cancels the three tasks and awaits
\* asyncio.gather on them
RunLeavesLoop(reason) ==
    /\ run_pc = "loop" \/ (run_pc = "request" /\ reason = "KeyboardInterrupt")
    /\ reason = "CancelledError" => "run" \in cancel_requested
    /\ run_pc' = "gather"
    /\ run_exit' = reason
    /\ cancel_requested' =
          {t \in Tasks : task_state[t] # "done"}
             \cup IF reason = "CancelledError" THEN {}
                  ELSE cancel_requested \cap {"run"}
    /\ UNCHANGED <<monitor_vars, link_vars, worker_vars, verdict_vars, backlog_vars, guard_vars, backoff_vars, hm_vars, task_state, disconnect_attempted>>

\* run_health_checks: the probe of health_check starts (check_messages), or
\* is over
HealthTaskRequest ==
    /\ task_state["health_task"] \in {"sleep", "request"}
    /\ "health_task" \notin cancel_requested
    /\ task_state' = [task_state EXCEPT !["health_task"] =
                         IF @ = "sleep" THEN "request" ELSE "sleep"]
    /\ UNCHANGED <<monitor_vars, link_vars, worker_vars, verdict_vars, backlog_vars, guard_vars, backoff_vars, hm_vars, run_pc, run_exit,
                   cancel_requested, disconnect_attempted>>

\* _retry_failed_messages, _cleanup_old_messages: an exception of the sweep
\* (the loop has no except) ends the task
TaskFails(t) ==
    /\ t \in {"retry_task", "cleanup_task"}
    /\ task_state[t] = "sleep"
    /\ task_state' = [task_state EXCEPT ![t] = "done"]
    /\ cancel_requested' = cancel_requested \ {t}
    /\ UNCHANGED <<monitor_vars, link_vars, worker_vars, verdict_vars, backlog_vars, guard_vars, backoff_vars, hm_vars, run_pc, run_exit,
                   disconnect_attempted>>

\* the pending cancellation of background task t is delivered at its await:
\* in asyncio.sleep it ends the task, inside check_messages it is caught and
\* the task goes on
DeliverCancel(t) ==
    /\ t \in cancel_requested
    /\ cancel_requested' = cancel_requested \ {t}
    /\ task_state' = [task_state EXCEPT ![t] =
                         IF @ = "sleep" THEN "done" ELSE @]
    /\ UNCHANGED <<monitor_vars, link_vars, worker_vars, verdict_vars, backlog_vars, guard_vars, backoff_vars, hm_vars, run_pc, run_exit,
                   disconnect_attempted>>

\* run, finally: asyncio.gather returns once the three tasks are over
GatherReturns ==
    /\ run_pc = "gather"
    /\ "run" \notin cancel_requested
    /\ \A t \in Tasks : task_state[t] = "done"
    /\ run_pc' = "disconnect"
    /\ UNCHANGED <<monitor_vars, link_vars, worker_vars, verdict_vars, backlog_vars, guard_vars, backoff_vars, hm_vars, run_exit, task_state,
                   cancel_requested, disconnect_attempted>>

\* run, finally: client.disconnect() inside try / bare except (which also
\* catches a cancellation), then run returns or re-raises
DisconnectAttempt ==
    /\ run_pc = "disconnect"
    /\ disconnect_attempted' = TRUE
    /\ run_pc' = "returned"
    /\ cancel_requested' = cancel_requested \ {"run"}
    /\ UNCHANGED <<monitor_vars, link_vars, worker_vars, verdict_vars, backlog_vars, guard_vars, backoff_vars, hm_vars, run_exit, task_state>>

\* the cancellation of run is delivered while its finally block awaits
\* asyncio.gather: gather passes the cancellation on to the tasks that are
\* not over and CancelledError leaves run
RunCancelledInFinally ==
    /\ run_pc = "gather"
    /\ "run" \in cancel_requested
    /\ run_pc' = "returned"
    /\ run_exit' = "CancelledError"
    /\ cancel_requested' = {t \in Tasks : task_state[t] # "done"}
    /\ UNCHANGED <<monitor_vars, link_vars, worker_vars, verdict_vars, backlog_vars, guard_vars, backoff_vars, hm_vars, task_state, disconnect_attempted>>

ShutdownNext ==
    \/ CancelRun
    \/ RunRequest
    \/ RunCancelSwallowed
    \/ \E reason \in ExitReasons : RunLeavesLoop(reason)
    \/ HealthTaskRequest
    \/ \E t \in Tasks : TaskFails(t)
    \/ \E t \in Tasks : DeliverCancel(t)
    \/ GatherReturns
    \/ DisconnectAttempt
    \/ RunCancelledInFinally

\* run with its background tasks, from the start of its loop to its end.
ShutdownSpec == Init /\ [][ShutdownNext]_vars

(***************************************************************************)
(* ExponentialBackoff.get_delay as a function of its own: any retry count, *)
(* jitter on or off.                                                       *)
(***************************************************************************)
\* self.multiplier ** retry_count is a power of floats: Python raises
\* OverflowError when the result is not a float any more, which for the
\* multiplier 2.0 is from 2.0 ** 1024 on.
float_max_exponent == 1024

pow_raises(retry_count) == retry_count >= float_max_exponent

\* From multiplier ^ 20 on the power is far above max_delay / base_delay, and
\* min(..., max_delay) gives what it gives for multiplier ^ 20.
exponent_in_range(retry_count) ==
    IF retry_count > 20 THEN 20 ELSE retry_count

\* get_delay of an ExponentialBackoff(jitter=jitter): what it returns, in
\* milliseconds, or that it raises.  u is the draw of random.uniform.
ExponentialBackoff_get_delay(jitter, retry_count, u) ==
    IF pow_raises(retry_count)
    THEN [raised |-> TRUE, delay |-> 0]
    ELSE [raised |-> FALSE,
          delay |-> get_delay(exponent_in_range(retry_count),
                              IF jitter THEN u ELSE 0)]

\* retry counts given to get_delay: the small ones, and those around the
\* largest power of 2.0
Attempts == (0..MaxAttempt) \cup {float_max_exponent - 1, float_max_exponent}

GetDelay(jitter, retry_count, u) ==
    /\ backoff_call' = [jitter |-> jitter, retry_count |-> retry_count,
                        u |-> u]
    /\ backoff_result' = ExponentialBackoff_get_delay(jitter, retry_count, u)
    /\ UNCHANGED <<monitor_vars, link_vars, worker_vars, verdict_vars, backlog_vars, guard_vars, shutdown_vars, hm_vars>>

BackoffNext ==
    \E jitter \in BOOLEAN, retry_count \in Attempts, u \in JitterChoices :
       GetDelay(jitter, retry_count, u)

\* Calls of get_delay, one after the other.
BackoffSpec == Init /\ [][BackoffNext]_vars

(***************************************************************************)
(* The heartbeat monitor (scripts/mcp_use_heartbeat_monitor.py):           *)
(* monitor_loop and _extract_sender.  A payload is a sequence of lines, a  *)
(* line is what stands before and after its first colon, as sequences of   *)
(* tokens; a token is a word with or without a leading "@".                *)
(***************************************************************************)
Tok(at, word) == [at |-> at, word |-> word]

\* agent_name of monitor_loop: the resolved handle, with its "@"
agent_name == Tok(TRUE, "agent")

\* str.lower on a token
lower_tok(tok) ==
    [tok EXCEPT !.word = CASE @ = "Unknown" -> "unknown"
                           [] @ = "WAIT SUCCESS" -> "wait success"
                           [] OTHER -> @]

HmAuthors == {<<>>, <<Tok(TRUE, "agent")>>, <<Tok(FALSE, "bob")>>,
              <<Tok(FALSE, "Unknown")>>, <<Tok(FALSE, "WAIT SUCCESS")>>}

HmBodies == {<<>>, <<Tok(TRUE, "bob")>>, <<Tok(TRUE, "Unknown")>>,
             <<Tok(FALSE, "WAIT TIMEOUT")>>}

\* bullet: the line starts with a bullet or a dash; colon: it has a colon
HmLines == [bullet : BOOLEAN, colon : BOOLEAN,
            author : HmAuthors, body : HmBodies]

\* the texts a long poll can return; <<>> is no result or an empty text
HmPayloads == UNION {[1..n -> HmLines] : n \in 0..MaxLines}

UnknownSender == [author |-> <<Tok(FALSE, "unknown")>>,
                  sender |-> Tok(TRUE, "unknown")]

\* tokens of text that start with "@"
handles_of(text) == SelectSeq(text, LAMBDA tok : tok.at)

\* the first handle that is not self_handle, <<>> when there is none
first_other(handles, self_handle) ==
    LET others == SelectSeq(handles, LAMBDA h :
                              lower_tok(h) # lower_tok(self_handle))
    IN  IF others = <<>> THEN <<>> ELSE <<Head(others)>>

\* _extract_sender, the body of its loop for one line: <<the pair it
\* returns>>, or <<>> when the loop goes on with the next line
sender_of_line(line, self_handle) ==
    IF ~line.bullet \/ ~line.colon THEN <<>>
    ELSE
      LET author == line.author
          handle == first_other(handles_of(author) \o handles_of(line.body),
                                self_handle)
          base   == Tok(FALSE, Head(author).word)
      IN  IF handle # <<>>
          THEN <<[author |-> IF author = <<>>
                             THEN <<Tok(FALSE, "unknown")>> ELSE author,
                  sender |-> handle[1]]>>
          ELSE IF /\ author # <<>>
                  /\ lower_tok(Head(author)).word # "wait success"
                  /\ lower_tok(base) # lower_tok(self_handle)
               THEN <<[author |-> author,
                       sender |-> Tok(TRUE, base.word)]>>
               ELSE <<>>

RECURSIVE extract_sender(_, _)
extract_sender(raw, self_handle) ==
    IF raw = <<>> THEN UnknownSender
    ELSE LET found == sender_of_line(Head(raw), self_handle)
         IN  IF found # <<>> THEN found[1]
             ELSE extract_sender(Tail(raw), self_handle)

\* "WAIT TIMEOUT" in raw
has_wait_timeout(raw) ==
    \E i \in 1..Len(raw) :
       \E k \in 1..Len(raw[i].body) : raw[i].body[k].word = "WAIT TIMEOUT"

NoValidMention == "No valid mention detected"

\* MessageStore.update_message_status of the heartbeat monitor
hm_update_message_status(rows, mid, status, error_message) ==
    IF mid \notin DOMAIN rows THEN rows
    ELSE [rows EXCEPT ![mid] =
            [@ EXCEPT !.status = status,
                      !.processed_at =
                         IF status \in {"completed", "failed"}
                         THEN now ELSE NoTime,
                      !.error_message = error_message]]

HmPoll_no_sender_test(raw) ==
    /\ hm_pc = "wait"
    /\ hm_received < MaxHmMsgs
    /\ hm_received' = hm_received + 1
    /\ IF raw = <<>> \/ has_wait_timeout(raw) \/ raw \in seen_ids
       THEN UNCHANGED <<hm_pc, hm_cur, hm_store, seen_ids>>
       ELSE
         LET mid    == raw
             found  == extract_sender(raw, agent_name)
             stored == [status |-> "processing",
                        parsed_author |-> found.author,
                        sender_handle |-> found.sender,
                        processed_at |-> NoTime,
                        error_message |-> None]
             rows   == [i \in DOMAIN hm_store \cup {mid} |->
                           IF i = mid THEN stored ELSE hm_store[i]]
         IN  /\ seen_ids' = seen_ids \cup {mid}
             /\ hm_store' = rows
             /\ hm_cur' = mid
             /\ hm_pc' = IF plugin_enabled THEN "plugin" ELSE "send"
    /\ UNCHANGED <<monitor_vars, link_vars, worker_vars, verdict_vars, backlog_vars, guard_vars, shutdown_vars, backoff_vars,
                   hm_plugin_calls, hm_sends, plugin_enabled>>

HmPoll_no_seen_test(raw) ==
    /\ hm_pc = "wait"
    /\ hm_received < MaxHmMsgs
    /\ hm_received' = hm_received + 1
    /\ IF raw = <<>> \/ has_wait_timeout(raw)
       THEN UNCHANGED <<hm_pc, hm_cur, hm_store, seen_ids>>
       ELSE
         LET mid    == raw
             found  == extract_sender(raw, agent_name)
             stored == [status |-> "processing",
                        parsed_author |-> found.author,
                        sender_handle |-> found.sender,
                        processed_at |-> NoTime,
                        error_message |-> None]
             rows   == [i \in DOMAIN hm_store \cup {mid} |->
                           IF i = mid THEN stored ELSE hm_store[i]]
         IN  /\ seen_ids' = seen_ids \cup {mid}
             /\ IF lower_tok(found.sender) = Tok(TRUE, "unknown")
                THEN /\ hm_store' = hm_update_message_status(
                                       rows, mid, "completed", NoValidMention)
                     /\ UNCHANGED <<hm_pc, hm_cur>>
                ELSE /\ hm_store' = rows
                     /\ hm_cur' = mid
                     /\ hm_pc' = IF plugin_enabled THEN "plugin" ELSE "send"
    /\ UNCHANGED <<monitor_vars, link_vars, worker_vars, verdict_vars, backlog_vars, guard_vars, shutdown_vars, backoff_vars,
                   hm_plugin_calls, hm_sends, plugin_enabled>>

\* monitor_loop, from the long poll to the test of the sender: the payload
\* is stored as PROCESSING; with the sender @unknown it is marked COMPLETED
\* and the loop continues
HmPoll(raw) ==
    /\ hm_pc = "wait"
    /\ hm_received < MaxHmMsgs
    /\ hm_received' = hm_received + 1
    /\ IF raw = <<>> \/ has_wait_timeout(raw) \/ raw \in seen_ids
       THEN UNCHANGED <<hm_pc, hm_cur, hm_store, seen_ids>>
       ELSE
         LET mid    == raw
             found  == extract_sender(raw, agent_name)
             stored == [status |-> "processing",
                        parsed_author |-> found.author,
                        sender_handle |-> found.sender,
                        processed_at |-> NoTime,
                        error_message |-> None]
             rows   == [i \in DOMAIN hm_store \cup {mid} |->
                           IF i = mid THEN stored ELSE hm_store[i]]
         IN  /\ seen_ids' = seen_ids \cup {mid}
             /\ IF lower_tok(found.sender) = Tok(TRUE, "unknown")
                THEN /\ hm_store' = hm_update_message_status(
                                       rows, mid, "completed", NoValidMention)
                     /\ UNCHANGED <<hm_pc, hm_cur>>
                ELSE /\ hm_store' = rows
                     /\ hm_cur' = mid
                     /\ hm_pc' = IF plugin_enabled THEN "plugin" ELSE "send"
    /\ UNCHANGED <<monitor_vars, link_vars, worker_vars, verdict_vars, backlog_vars, guard_vars, shutdown_vars, backoff_vars,
                   hm_plugin_calls, hm_sends, plugin_enabled>>

\* monitor_loop: plugin.process_message returns a response or raises; an
\* acknowledgement stands in for a missing response
HmPlugin ==
    /\ hm_pc = "plugin"
    /\ hm_plugin_calls' = hm_plugin_calls \cup {hm_cur}
    /\ hm_pc' = "send"
    /\ UNCHANGED <<monitor_vars, link_vars, worker_vars, verdict_vars, backlog_vars, guard_vars, shutdown_vars, backoff_vars,
                   hm_cur, hm_store, seen_ids, hm_received, hm_sends,
                   plugin_enabled>>

\* monitor_loop: the send request returns a result (sent) or None
HmSend(sent) ==
    /\ hm_pc = "send"
    /\ hm_sends' = hm_sends \cup {hm_cur}
    /\ hm_store' = IF sent
                   THEN hm_update_message_status(
                           hm_store, hm_cur, "completed", None)
                   ELSE hm_update_message_status(
                           hm_store, hm_cur, "failed", "Response send failed")
    /\ hm_pc' = "wait"
    /\ hm_cur' = <<>>
    /\ UNCHANGED <<monitor_vars, link_vars, worker_vars, verdict_vars, backlog_vars, guard_vars, shutdown_vars, backoff_vars,
                   seen_ids, hm_received, hm_plugin_calls, plugin_enabled>>

\* monitor_loop is cancelled at one of its awaits: the loop is over
HmCancelled ==
    /\ hm_pc \in {"wait", "plugin", "send"}
    /\ hm_pc' = "stopped"
    /\ UNCHANGED <<monitor_vars, link_vars, worker_vars, verdict_vars, backlog_vars, guard_vars, shutdown_vars, backoff_vars,
                   hm_cur, hm_store, seen_ids, hm_received, hm_plugin_calls,
                   hm_sends, plugin_enabled>>

HmInit ==
    /\ MonitorInit
    /\ GuardIdle
    /\ ShutdownInit
    /\ BackoffIdle
    /\ HmIdle
    /\ plugin_enabled \in BOOLEAN
    /\ OthersIdle

HmNext ==
    \/ \E raw \in HmPayloads : HmPoll(raw)
    \/ HmPlugin
    \/ \E sent \in BOOLEAN : HmSend(sent)
    \/ HmCancelled

\* monitor_loop of the heartbeat monitor, with or without a plugin.
HmSpec == HmInit /\ [][HmNext]_vars

(***************************************************************************)
(* MessageStore of src/message_store.py (the mention backlog) and two      *)
(* consumers that use it.  A row is [processed, processing_started_at];    *)
(* the rows stand in order of their timestamp and a row's index is its id. *)
(***************************************************************************)
\* the other groups of variables
not_backlog_vars == <<monitor_vars, link_vars, guard_vars, shutdown_vars, backoff_vars,
                      hm_vars, verdict_vars, worker_vars>>

\* store_message: INSERT OR IGNORE of a new id
BacklogStore ==
    /\ Len(backlog) < MaxBacklog
    /\ backlog' = Append(backlog, [processed |-> FALSE,
                                   processing_started_at |-> NoTime])
    /\ UNCHANGED <<not_backlog_vars, handed, working>>

\* get_pending_messages: the ids of the rows with processed = 0, by
\* timestamp
backlog_pending(rows) ==
    SelectSeq([i \in 1..Len(rows) |-> i], LAMBDA i : ~rows[i].processed)

\* consumer c calls get_pending_messages
BacklogGetPending(c) ==
    /\ handed[c] = {} /\ working[c] = {}
    /\ LET ids == backlog_pending(backlog) IN
       /\ ids # <<>>
       /\ handed' = [handed EXCEPT ![c] = {ids[k] : k \in 1..Len(ids)}]
    /\ UNCHANGED <<not_backlog_vars, backlog, working>>

\* consumer c calls mark_processing_started for a message it was handed and
\* starts to process it
BacklogMarkStarted(c, id) ==
    /\ id \in handed[c]
    /\ backlog' = [backlog EXCEPT ![id].processing_started_at = now]
    /\ handed' = [handed EXCEPT ![c] = @ \ {id}]
    /\ working' = [working EXCEPT ![c] = @ \cup {id}]
    /\ UNCHANGED not_backlog_vars

\* consumer c has processed the message and calls mark_processed
BacklogMarkProcessed(c, id) ==
    /\ id \in working[c]
    /\ backlog' = [backlog EXCEPT ![id].processed = TRUE]
    /\ working' = [working EXCEPT ![c] = @ \ {id}]
    /\ UNCHANGED <<not_backlog_vars, handed>>

\* The backlog store with two consumers.
BacklogSpec ==
    Init /\ [][\/ BacklogStore
               \/ \E c \in Consumers : BacklogGetPending(c)
               \/ \E c \in Consumers, id \in 1..MaxBacklog :
                     BacklogMarkStarted(c, id)
               \/ \E c \in Consumers, id \in 1..MaxBacklog :
                     BacklogMarkProcessed(c, id)]_vars

(***************************************************************************)
(* parse_verdict of scripts/evaluation/parsers.py.  A judge text is what   *)
(* extract_json_block and json.loads make of it: no block, a block that is *)
(* not JSON, or an object with the values of "winner" and "confidence".    *)
(* Numbers are in hundredths.                                              *)
(***************************************************************************)
JudgeTexts ==
    LET Winners == {"missing", "A", "B", "TIE", "UNCERTAIN", "a", " tie ",
                    "C", "null"}
        Numbers == {[type |-> "number", value |-> v] :
                       v \in {-50, 0, 50, 100, 150}}
        Strings == {[type |-> "string", value |-> v] : v \in {50, 150}}
        Others  == {[type |-> t, value |-> 0] :
                       t \in {"missing", "nan", "inf", "neg_inf", "big_int",
                              "text", "null", "list", "true"}}
    IN  {[block |-> "none"], [block |-> "not_json"]}
           \cup [block : {"object"}, winner : Winners,
                 confidence : Numbers \cup Strings \cup Others]

\* float(confidence_raw): the float, or the exception it raises
to_float(raw) ==
    CASE raw.type \in {"number", "string"} ->
            [raises |-> "", kind |-> "finite", value |-> raw.value]
      [] raw.type = "missing" ->
            [raises |-> "", kind |-> "finite", value |-> 0]
      [] raw.type = "true" ->
            [raises |-> "", kind |-> "finite", value |-> 100]
      [] raw.type \in {"nan", "inf", "neg_inf"} ->
            [raises |-> "", kind |-> raw.type, value |-> 0]
      [] raw.type = "big_int" ->
            [raises |-> "OverflowError", kind |-> "", value |-> 0]
      [] raw.type = "text" ->
            [raises |-> "ValueError", kind |-> "", value |-> 0]
      [] OTHER ->
            [raises |-> "TypeError", kind |-> "", value |-> 0]

\* _clamp: max(0.0, min(1.0, value)) with the comparisons of floats (every
\* comparison with nan is false; min and max keep their first argument
\* unless the second one is smaller, respectively larger)
clamp(f) ==
    LET lt(a, b) ==
            /\ a.kind # "nan" /\ b.kind # "nan"
            /\ \/ a.kind = "neg_inf" /\ b.kind # "neg_inf"
               \/ b.kind = "inf" /\ a.kind # "inf"
               \/ a.kind = "finite" /\ b.kind = "finite" /\ a.value < b.value
        one   == [kind |-> "finite", value |-> 100]
        zero  == [kind |-> "finite", value |-> 0]
        least == IF lt(f, one) THEN f ELSE one
    IN  IF lt(zero, least) THEN least ELSE zero

\* parse_verdict: the verdict, or the exception that leaves it
parse_verdict(text) ==
    IF text.block # "object"
    THEN [raised |-> "", winner |-> "UNCERTAIN", confidence |-> 0]
    ELSE
      LET raw    == IF text.winner = "missing" THEN "UNCERTAIN"
                    ELSE text.winner
          upped  == CASE raw = "a" -> "A"
                      [] raw = " tie " -> "TIE"
                      [] raw = "null" -> "NONE"
                      [] OTHER -> raw
          winner == IF upped \in {"A", "B", "TIE", "UNCERTAIN"}
                    THEN upped ELSE "UNCERTAIN"
          f      == to_float(text.confidence)
      IN  IF f.raises \in {"TypeError", "ValueError"}
          THEN [raised |-> "", winner |-> winner, confidence |-> 0]
          ELSE IF f.raises # ""
          THEN [raised |-> f.raises, winner |-> "", confidence |-> 0]
          ELSE [raised |-> "", winner |-> winner,
                confidence |-> clamp(f).value]

ParseVerdict(text) ==
    /\ judge_text' = text
    /\ verdict' = parse_verdict(text)
    /\ UNCHANGED <<monitor_vars, link_vars, worker_vars, guard_vars, shutdown_vars, backoff_vars,
                   hm_vars, backlog_vars>>

\* Calls of parse_verdict, one after the other.
VerdictSpec == Init /\ [][\E text \in JudgeTexts : ParseVerdict(text)]_vars

(***************************************************************************)
(* MessageQueue (src/message_queue.py) and queue_worker of                 *)
(* simple_working_monitor.py.                                              *)
(***************************************************************************)
\* enqueue: Queue.put of a new job
Enqueue ==
    /\ retrieved + qsize < MaxJobs
    /\ qsize' = qsize + 1
    /\ unfinished' = unfinished + 1
    /\ UNCHANGED <<monitor_vars, link_vars, guard_vars, shutdown_vars, backoff_vars,
                   hm_vars, backlog_vars, verdict_vars, worker_pc, retrieved,
                   task_done_calls, drain_pc>>

\* queue_worker: message_queue.get() returns the next job
WorkerGet ==
    /\ worker_pc = "get"
    /\ qsize > 0
    /\ qsize' = qsize - 1
    /\ retrieved' = retrieved + 1
    /\ worker_pc' = "job"
    /\ UNCHANGED <<monitor_vars, link_vars, guard_vars, shutdown_vars, backoff_vars,
                   hm_vars, backlog_vars, verdict_vars, unfinished,
                   task_done_calls, drain_pc>>

\* drain: Queue.join returns at once when no job is unfinished, else it
\* waits for task_done to count the last one
Drain ==
    /\ drain_pc # "waiting"
    /\ drain_pc' = IF unfinished > 0 THEN "waiting" ELSE "returned"
    /\ UNCHANGED <<monitor_vars, link_vars, guard_vars, shutdown_vars, backoff_vars,
                   hm_vars, backlog_vars, verdict_vars, qsize, unfinished,
                   worker_pc, retrieved, task_done_calls>>

\* Queue.task_done called `calls` times in a row: each call raises
\* ValueError when no job is unfinished, else it counts one job as done
\* and, when that was the last one, wakes the callers of join.
\* The state after the calls, and whether one of them raised.
task_done(calls) ==
    LET done == IF calls < unfinished THEN calls ELSE unfinished
    IN  [unfinished |-> unfinished - done,
         task_done_calls |-> task_done_calls + done,
         drain_pc |-> IF done > 0 /\ done = unfinished /\ drain_pc = "waiting"
                      THEN "returned" ELSE drain_pc,
         raised |-> calls > unfinished]

\* queue_worker: process_queue_job returns or raises an Exception (which is
\* printed); the finally clause calls task_done and the loop goes on
WorkerJobEnds ==
    /\ worker_pc = "job"
    /\ LET r == task_done(1) IN
       /\ unfinished' = r.unfinished
       /\ task_done_calls' = r.task_done_calls
       /\ drain_pc' = r.drain_pc
       /\ worker_pc' = IF r.raised THEN "ValueError" ELSE "get"
    /\ UNCHANGED <<monitor_vars, link_vars, guard_vars, shutdown_vars, backoff_vars,
                   hm_vars, backlog_vars, verdict_vars, qsize, retrieved>>

\* queue_worker is cancelled: in get() the loop ends; in process_queue_job
\* the except clause calls task_done and breaks, and the finally clause
\* calls task_done on the way out
WorkerCancelled ==
    /\ worker_pc \in {"get", "job"}
    /\ LET r == task_done(IF worker_pc = "job" THEN 2 ELSE 0) IN
       /\ unfinished' = r.unfinished
       /\ task_done_calls' = r.task_done_calls
       /\ drain_pc' = r.drain_pc
       /\ worker_pc' = IF r.raised THEN "ValueError" ELSE "ended"
    /\ UNCHANGED <<monitor_vars, link_vars, guard_vars, shutdown_vars, backoff_vars,
                   hm_vars, backlog_vars, verdict_vars, qsize, retrieved>>

\* The queue with its one worker.
WorkerSpec ==
    Init /\ [][Enqueue \/ Drain \/ WorkerGet \/ WorkerJobEnds
                   \/ WorkerCancelled]_vars

\* C37: queue_worker calls task_done exactly once for every job it has
\* retrieved and finished with, on every exit path of process_queue_job, so
\* task_done never fails for want of an unfinished job, and the queue counts
\* no job unfinished (drain returns) exactly when every enqueued job has
\* been handled: a call of drain returns only then.
C37_TaskDoneOncePerJob ==
    /\ [](/\ worker_pc # "ValueError"
          /\ task_done_calls
                = retrieved - (IF worker_pc = "job" THEN 1 ELSE 0)
          /\ (unfinished = 0) <=> (qsize = 0 /\ worker_pc # "job"))
    /\ [][drain_pc # "returned" /\ drain_pc' = "returned"
            => qsize' = 0 /\ worker_pc' # "job"]_vars

(***************************************************************************)
(* MCPClient: connect, disconnect, the heartbeat loop and the attempt loop *)
(* of check_messages and send_message.                                     *)
(***************************************************************************)
not_link_vars == <<monitor_vars, guard_vars, shutdown_vars, backoff_vars,
                   hm_vars, backlog_vars, verdict_vars, worker_vars>>

\* check_messages, send_message: range(5), the attempts of one call
client_attempts == 5

\* check_messages, send_message: the cap of min(backoff * 2, 10), in seconds
backoff_cap == 10

\* disconnect(): the client after it.  _stop_heartbeat clears
\* _heartbeat_task first; then the session, the stream context and
\* _connected are cleared in that order, as far as the teardown gets.
disconnect(c, teardown) ==
    [c EXCEPT !.heartbeat_task = "none",
              !.session = IF teardown = "in_session" THEN @ ELSE "none",
              !.stream_ctx = IF teardown = "done" THEN "none" ELSE @,
              !.connected = IF teardown = "done" THEN FALSE ELSE @]

\* _heartbeat_loop: a ping failed or timed out while the client is
\* connected; the loop awaits disconnect() and ends
HbPingFails(teardown) ==
    /\ mcp_client.heartbeat_task = "running"
    /\ mcp_client.connected
    /\ mcp_client.session = "open"
    /\ mcp_client.lock = "free"
    /\ mcp_client' = disconnect(mcp_client, teardown)
    /\ UNCHANGED <<not_link_vars, client_call, keys_sent, calls_made>>

\* check_messages / send_message is called: the backoff starts at one second
\* and send_message draws its idempotency key (uuid4: a key no call had)
CallStart(op) ==
    /\ client_call.pc \in {"idle", "returned"}
    /\ calls_made < MaxCalls
    /\ calls_made' = calls_made + 1
    /\ client_call' = [op |-> op, pc |-> "connect", attempt |-> 0,
                       backoff |-> 1,
                       idem_key |-> IF op = "send_message"
                                    THEN calls_made + 1 ELSE 0,
                       result |-> "none"]
    /\ keys_sent' = <<>>
    /\ UNCHANGED <<not_link_vars, mcp_client>>

\* check_messages / send_message: asyncio.sleep(backoff), the backoff
\* doubles up to the cap, and the loop goes to its next attempt or, after
\* the last one, the call returns None / False
next_attempt(c) ==
    IF c.attempt + 1 < client_attempts
    THEN [c EXCEPT !.pc = "connect", !.attempt = @ + 1,
                   !.backoff = IF @ * 2 < backoff_cap THEN @ * 2
                               ELSE backoff_cap]
    ELSE [c EXCEPT !.pc = "returned", !.attempt = @ + 1,
                   !.backoff = IF @ * 2 < backoff_cap THEN @ * 2
                               ELSE backoff_cap,
                   !.result = IF c.op = "send_message" THEN "False"
                              ELSE "None"]

\* connect() of one attempt.  With _connected and a session it returns True
\* at once.  Else it opens the transport and the session, sets _connected
\* and starts the heartbeat ("true"); returns False for want of an access
\* token ("false"); or meets an exception, whose handler awaits
\* disconnect() for the lock connect() itself holds ("hang").
CallConnect(outcome) ==
    /\ client_call.pc = "connect"
    /\ mcp_client.lock = "free"
    /\ IF mcp_client.connected /\ mcp_client.session = "open"
       THEN /\ outcome = "true"
            /\ client_call' = [client_call EXCEPT !.pc = "request"]
            /\ UNCHANGED mcp_client
       ELSE IF outcome = "true"
       THEN /\ client_call' = [client_call EXCEPT !.pc = "request"]
            /\ mcp_client' = [mcp_client EXCEPT !.connected = TRUE,
                                                !.session = "open",
                                                !.stream_ctx = "open",
                                                !.heartbeat_task = "running"]
       ELSE IF outcome = "false"
       THEN /\ client_call' = next_attempt(client_call)
            /\ UNCHANGED mcp_client
       ELSE /\ client_call' = [client_call EXCEPT !.pc = "hung"]
            /\ mcp_client' = [mcp_client EXCEPT !.stream_ctx = "open",
                                                !.lock = "held"]
    /\ UNCHANGED <<not_link_vars, keys_sent, calls_made>>

\* How session.call_tool of one attempt ends: a result, an HTTPStatusError
\* (401, another status below 500, 500 and above), a CancelledError, a
\* TimeoutError, or another exception.
RequestOutcomes ==
    {"ok", "http_401", "http_4xx", "http_5xx", "cancelled", "timeout",
     "error"}

\* Mutant of CallRequest: send_message draws a key for every attempt.
CallRequest_key_per_attempt(outcome) ==
    /\ client_call.pc = "request"
    /\ keys_sent' = IF client_call.op = "send_message"
                    THEN Append(keys_sent,
                                client_call.idem_key + client_call.attempt)
                    ELSE keys_sent
    /\ IF outcome = "ok"
       THEN /\ client_call' = [client_call EXCEPT
                                 !.pc = "returned",
                                 !.result = IF client_call.op = "send_message"
                                            THEN "True" ELSE "text"]
            /\ UNCHANGED mcp_client
       ELSE /\ client_call' = next_attempt(client_call)
            /\ mcp_client' = IF outcome \in {"http_4xx", "timeout"}
                             THEN mcp_client
                             ELSE disconnect(mcp_client, "done")
    /\ UNCHANGED <<not_link_vars, calls_made>>

\* check_messages / send_message: the request of one attempt is over.  A
\* result is returned; after an error the client is disconnected (not after
\* a status below 500 other than 401, nor after a timeout) and the loop
\* goes on.  A request of send_message carries the key of the call.
CallRequest(outcome) ==
    /\ client_call.pc = "request"
    /\ keys_sent' = IF client_call.op = "send_message"
                    THEN Append(keys_sent, client_call.idem_key)
                    ELSE keys_sent
    /\ IF outcome = "ok"
       THEN /\ client_call' = [client_call EXCEPT
                                 !.pc = "returned",
                                 !.result = IF client_call.op = "send_message"
                                            THEN "True" ELSE "text"]
            /\ UNCHANGED mcp_client
       ELSE /\ client_call' = next_attempt(client_call)
            /\ mcp_client' = IF outcome \in {"http_4xx", "timeout"}
                             THEN mcp_client
                             ELSE disconnect(mcp_client, "done")
    /\ UNCHANGED <<not_link_vars, calls_made>>

\* One MCPClient with its heartbeat task and the task that calls
\* check_messages and send_message on it.
MCPClientSpec ==
    Init /\ [][\/ \E t \in TeardownOutcomes : HbPingFails(t)
               \/ \E op \in {"check_messages", "send_message"} : CallStart(op)
               \/ \E o \in ConnectOutcomes : CallConnect(o)
               \/ \E o \in RequestOutcomes : CallRequest(o)]_vars

\* Is the client c fully disconnected: _connected false, no session, no
\* stream context, no heartbeat task
FullyDisconnected(c) ==
    /\ ~c.connected
    /\ c.session = "none"
    /\ c.stream_ctx = "none"
    /\ c.heartbeat_task = "none"

\* C38: after a heartbeat ping fails or times out, the client is left fully
\* disconnected (_connected false, session and stream context cleared,
\* heartbeat task ended), so that the connect() of the next check_messages
\* or send_message attempt leaves a heartbeat loop running.
C38_HeartbeatFailureDisconnects ==
    /\ [][(\E t \in TeardownOutcomes : HbPingFails(t))
            => FullyDisconnected(mcp_client')]_vars
    /\ [][(\E o \in ConnectOutcomes : CallConnect(o))
            /\ client_call'.pc = "request"
            => mcp_client'.heartbeat_task = "running"]_vars

\* C39: a check_messages or send_message call makes at most five attempts
\* with a backoff of at most ten seconds, never stays inside an attempt for
\* good, and after the fifth failed attempt has returned None / False.
C39_CallsTerminate ==
    /\ client_call.attempt <= client_attempts
    /\ client_call.backoff <= backoff_cap
    /\ client_call.pc # "hung"
    /\ (client_call.attempt = client_attempts)
         => (client_call.pc = "returned"
             /\ client_call.result \in {"None", "False"})

\* C40: every request sent by the attempts of one send_message call carries
\* the idempotency key drawn when the call started, and the key of a call
\* does not change while the call lasts.
C40_OneKeyPerCall ==
    /\ [](\A i \in DOMAIN keys_sent : keys_sent[i] = client_call.idem_key)
    /\ [][calls_made' = calls_made
            => client_call'.idem_key = client_call.idem_key]_vars

\* C40 witness: a send_message call has sent its request in three attempts
C40_Witness ==
    /\ client_call.op = "send_message"
    /\ Len(keys_sent) >= 3

Main(cap) ==
    \/ LoopTop
    \/ \E outcome \in ConnectOutcomes : reliable_reconnect(outcome)
    \/ RequestHangs
    \/ PluginReturns
    \/ PluginRaises
    \/ SendStart
    \/ \E ok \in BOOLEAN : SendReturns(ok)
    \/ PollStart
    \/ \E messages \in Payloads \cup {NoData} : PollReturns(messages, cap)

Health ==
    \/ HealthCheckStart
    \/ \E outcome \in ProbeOutcomes : HealthProbeReturns(outcome)
    \/ HealthProbeHangs

\* The monitor with all its tasks.
\* The process stops (a crash, or a shutdown) wherever it is, and is started
\* again: the rows of the SQLite file stay, everything in memory starts anew.
Restart ==
    /\ pc' = "top"
    /\ queue' = <<>>
    /\ cur' = NoMessage
    /\ send_attempt' = 0
    /\ lock' = "free"
    /\ request_lock' = FALSE
    /\ long_poll_active' = FALSE
    /\ hpc' = "sleep"
    /\ hb' = "sleep"
    /\ connected' = TRUE
    /\ connect_attempt' = 0
    /\ last_successful_check' = now
    /\ consecutive_failures' = 0
    /\ last_wait_success' = now
    /\ last_probe' = "never"
    /\ UNCHANGED <<store, now, ticks, last_attempt, plugin_calls, fn_vars>>

\* The monitor, stopped and started again at any moment.
RestartSpec ==
    Init /\ [][Tick \/ Main(MaxMsgs) \/ Health \/ RetrySweep \/ Cleanup
                 \/ Restart]_vars

Next == Tick \/ Main(MaxMsgs) \/ Health \/ RetrySweep \/ Cleanup

Spec == Init /\ [][Next]_vars

\* The control loop and the two sweeps over the store, without the
\* health-check task (which neither reads nor writes the store), for more rows.
StoreNext == Tick \/ Main(MaxMsgsStore) \/ RetrySweep \/ Cleanup

StoreSpec == Init /\ [][StoreNext]_vars

Heartbeat ==
    \/ HeartbeatPing
    \/ \E outcome \in PingOutcomes, teardown \in TeardownOutcomes :
          HeartbeatReturns(outcome, teardown)
    \/ HeartbeatRestart

\* The tasks that issue requests on the MCPClient: the control loop (long
\* poll, send), the health probe and the heartbeat.
ClientNext == Tick \/ Main(MaxMsgs) \/ Health \/ Heartbeat

ClientSpec == Init /\ [][ClientNext]_vars

\* The monitor when run() keeps iterating: the control loop, the health-check
\* task and the retry sweep each take their next step when they can (weak
\* fairness).  The request lock is an asyncio.Lock, which wakes its waiters in
\* FIFO order, so the control loop waiting for it is not overtaken forever by
\* the health probe (strong fairness of its two acquisitions).
LiveSpec ==
    /\ Spec
    /\ WF_vars(Main(MaxMsgs))
    /\ SF_vars(SendStart)
    /\ SF_vars(PollStart)
    /\ WF_vars(Health)
    /\ WF_vars(RetrySweep)
    /\ []<>(pc = "top")

(***************************************************************************)
(* Properties                                                              *)
(***************************************************************************)
\* C1: ingesting the same raw payload twice leaves exactly one message row
\* for it: no two rows of the store hold the same raw_content.
C1_OneRowPerPayload ==
    \A i, j \in DOMAIN store :
        store[i].raw_content = store[j].raw_content => i = j

\* C2: once a stored message is DEAD_LETTER, no step of any task changes its
\* status (or removes the row).
C2_DeadLetterTerminal ==
    [][\A i \in DOMAIN store :
          store[i].status = "dead_letter"
              => i \in DOMAIN store' /\ store'[i].status = "dead_letter"]_vars

\* C2 witness: a dead letter is still in the store at a later time, while
\* the control loop is in its long poll.
C2_Witness ==
    \E i \in DOMAIN store :
        /\ store[i].status = "dead_letter"
        /\ store[i].processed_at < now
        /\ pc = "polling"

\* C3: the retry_count of a stored message never decreases, as long as the
\* row is not deleted.
C3_RetryMonotonic ==
    [][\A i \in DOMAIN store \cap DOMAIN store' :
          store'[i].retry_count >= store[i].retry_count]_vars

\* C3 witness: a message that failed twice was requeued by the retry sweep.
C3_Witness ==
    \E i \in DOMAIN store :
        store[i].retry_count >= 2 /\ store[i].status = "pending"

QueueIds(q) == {q[k].id : k \in DOMAIN q}

\* C4 as claimed: a message that has failed max_retries times is DEAD_LETTER
\* with an error_message about retry exhaustion.
C4_DeadAfterLastFailure ==
    \A i \in DOMAIN store :
        store[i].retry_count >= max_retries
            => /\ store[i].status = "dead_letter"
               /\ store[i].error_message = "Exceeded max retries (5)"

\* C4 amended: a message is handed to the plugin at most max_retries times;
\* after its max_retries-th failure it is FAILED with retry_count =
\* max_retries, and the drain pass that next visits it moves it to
\* DEAD_LETTER with the retry-exhaustion error, without a plugin call.
C4_DeadAtNextDrain ==
    /\ [](\A i \in DOMAIN store :
            /\ plugin_calls[i] <= max_retries
            /\ store[i].retry_count <= max_retries
            /\ store[i].retry_count = max_retries
                => \/ store[i].status = "failed"
                   \/ /\ store[i].status = "dead_letter"
                      /\ store[i].error_message = "Exceeded max retries (5)")
    /\ [][/\ pc \in {"top", "reconnect_health"} /\ pc' \in {"plugin", "poll"}
            => \A i \in DOMAIN store :
                  store[i].retry_count >= max_retries /\ store[i].status = "failed"
                      => \/ i \in QueueIds(queue')
                         \/ store'[i].status = "dead_letter"
          /\ \A k \in DOMAIN queue :
                queue[k].retry_count >= max_retries /\ queue[k].id \notin QueueIds(queue')
                    => /\ store'[queue[k].id].status = "dead_letter"
                       /\ store'[queue[k].id].error_message = "Exceeded max retries (5)"
                       /\ plugin_calls'[queue[k].id] = plugin_calls[queue[k].id]]_vars

\* C4 witness: a message was handed to the plugin max_retries times and is
\* now a dead letter.
C4_Witness ==
    \E i \in DOMAIN store :
        /\ store[i].status = "dead_letter"
        /\ store[i].retry_count = max_retries
        /\ plugin_calls[i] = max_retries

\* C5: a message whose sender resolves to @unknown is never handed to the
\* plugin or to send_message.
C5_UnknownSenderSkipped ==
    pc \in {"plugin", "send", "sending"}
        => resolve_sender_handle(cur) # "@unknown"

AllSettled ==
    \A i \in DOMAIN store : store[i].status \in {"completed", "dead_letter"}

\* C6: while run() keeps iterating, every stored message reaches COMPLETED
\* or DEAD_LETTER: from any state with a pending, processing or failed
\* message, a state is reached in which all stored messages are settled.
C6_EventuallySettled == (~AllSettled) ~> AllSettled

\* C6 witness: a message failed, was retried and was completed.
C6_Witness ==
    \E i \in DOMAIN store :
        /\ store[i].status = "completed"
        /\ store[i].retry_count >= 1
        /\ plugin_calls[i] = store[i].retry_count + 1

\* C7: a FAILED message with retry_count < max_retries is handed to
\* processing again only after the backoff delay for its retry_count (at
\* least the delay with the most negative jitter) has passed since its last
\* attempt.  Stated for the re-attempts before which the clock has advanced,
\* as it does over the asyncio.sleep(1) of run.
C7_RetryWaitsForBackoff ==
    (/\ pc = "plugin"
     /\ cur.retry_count > 0
     /\ now > last_attempt[cur.id])
        => (now - last_attempt[cur.id]) * 1000 >= get_delay(cur.retry_count, -1)

C9_SuccessOnlyAfterProbe ==
    [][Health /\ hpc' = "sleep" /\ health_success => hpc = "probing"]_vars

\* C10: a health check whose probe failed on the transport (check_messages
\* raised, or gave up after its attempts) increments consecutive_failures by
\* exactly 1; one whose probe was answered resets it to 0 and refreshes
\* last_successful_check.
C10_FailedProbeCounts ==
    [][hpc = "probing" /\ hpc' = "sleep"
          => /\ last_probe' \in {"none", "raise"}
                => consecutive_failures' = consecutive_failures + 1
             /\ last_probe' = "text"
                => /\ consecutive_failures' = 0
                   /\ last_successful_check' = now]_vars

\* the tasks that have a messages/ping request in flight
InFlight ==
    {t \in {"poll", "send", "health", "ping"} :
        \/ t = "poll" /\ pc = "polling"
        \/ t = "send" /\ pc = "sending"
        \/ t = "health" /\ hpc = "probing"
        \/ t = "ping" /\ hb = "pinging"}

\* C11: at most one messages/ping request is in flight on the client; the
\* task in flight holds _request_lock and the lock is free when none is;
\* _current_request_label is non-null exactly while the lock is held, and
\* _long_poll_active implies the lock is held.
C11_OneRequestInFlight ==
    /\ Cardinality(InFlight) <= 1
    /\ request_lock <=> InFlight # {}
    /\ InFlight # {} => InFlight = {lock}
    /\ lock # "free" <=> request_lock
    /\ long_poll_active => request_lock
    /\ long_poll_active <=> pc = "polling"

\* C11 witness: the heartbeat ping holds the guard while the control loop
\* waits to issue its long poll and the health check has failed before.
C11_Witness ==
    /\ hb = "pinging"
    /\ pc = "poll"
    /\ lock = "ping"
    /\ last_probe = "raise"

\* C12: one drain pass visits its messages in ascending created_at order: the
\* messages still to visit are in that order, and none of them was created
\* before the message that is with the plugin (or being answered).
C12_DrainInCreatedOrder ==
    /\ \A a, b \in DOMAIN queue :
          a < b => queue[a].created_at <= queue[b].created_at
    /\ pc \in {"plugin", "send", "sending"}
          => \A k \in DOMAIN queue : cur.created_at <= queue[k].created_at

\* C12 witness: the plugin has the older of two messages of one pass, the
\* younger one waits.
C12_Witness ==
    /\ pc = "plugin"
    /\ queue # <<>>
    /\ cur.created_at < queue[1].created_at
    /\ queue[1].status \in {"pending", "failed"}

\* C13: in every iteration of run the drain pass is over before the long
\* poll is issued, and every message of the backlog had its turn in it:
\* the pass starts from all PENDING/FAILED rows, a message leaves the pass
\* only by being handed to the plugin or settled (COMPLETED, DEAD_LETTER),
\* and while run polls nothing of the pass is left.
C13_DrainBeforePoll ==
    /\ [](pc \in {"poll", "polling"} => queue = <<>> /\ cur = NoMessage)
    /\ [][/\ pc \in {"top", "reconnect_health"} /\ pc' \in {"plugin", "poll"}
            => \A i \in pending_ids :
                  \/ i \in QueueIds(queue')
                  \/ cur'.id = i
                  \/ store'[i].status \in {"completed", "dead_letter"}
          /\ \A i \in QueueIds(queue) \ QueueIds(queue') :
                \/ cur'.id = i
                \/ store'[i].status \in {"completed", "dead_letter"}]_vars

\* C13 witness: run issues its long poll after a drain pass that left one
\* message failed and one settled.
C13_Witness ==
    /\ pc = "polling"
    /\ \E i, j \in DOMAIN store :
          /\ store[i].status = "failed"
          /\ last_attempt[i] = now
          /\ store[j].status \in {"completed", "dead_letter"}
          /\ store[j].processed_at = now

C16_PluginErrorCaught ==
    [][pc = "plugin" /\ pc' # "send" /\ cur' # cur
          => /\ store'[cur.id].status = "failed"
             /\ store'[cur.id].error_message = "plugin error"
             /\ store'[cur.id].retry_count = store[cur.id].retry_count + 1
             /\ pc' \in {"plugin", "poll"}
             /\ pc' = "poll" => queue' = <<>>
             /\ \A i \in QueueIds(queue) \ QueueIds(queue') :
                   \/ cur'.id = i
                   \/ store'[i].status \in {"completed", "dead_letter"}
      ]_vars

\* the plugin raised for one message and the same drain pass is at the
\* plugin with the next one
C16_Witness ==
    /\ pc = "plugin"
    /\ \E i \in DOMAIN store :
          /\ i # cur.id
          /\ store[i].status = "failed"
          /\ store[i].error_message = "plugin error"
          /\ store[i].retry_count >= 1
          /\ last_attempt[i] = now
          /\ store[i].created_at <= cur.created_at

\* C17: _send_response_reliably calls client.send_message at most
\* max_attempts times for one response; an attempt that returns True ends it
\* and the message is COMPLETED with retry_count unchanged; an attempt that
\* returns False is followed by the next attempt, except the last one, after
\* which the message is FAILED with retry_count incremented by exactly one.
C17_BoundedSendAttempts ==
    /\ [](send_attempt \in 0..(max_attempts - 1))
    /\ [][/\ SendReturns(TRUE)
             => /\ store'[cur.id].status = "completed"
                /\ store'[cur.id].retry_count = store[cur.id].retry_count
                /\ cur' # cur
          /\ SendReturns(FALSE) /\ send_attempt < max_attempts - 1
             => /\ pc' = "send"
                /\ send_attempt' = send_attempt + 1
                /\ cur' = cur
                /\ store' = store
          /\ SendReturns(FALSE) /\ send_attempt = max_attempts - 1
             => /\ store'[cur.id].status = "failed"
                /\ store'[cur.id].error_message = "Failed to send response"
                /\ store'[cur.id].retry_count = store[cur.id].retry_count + 1
                /\ cur' # cur
          /\ pc = "sending" /\ pc' \notin {"sending", "hung"}
             => SendReturns(TRUE) \/ SendReturns(FALSE)
          /\ pc = "send" /\ pc' = "sending" => send_attempt' = send_attempt
      ]_vars

\* the last attempt for a response is in flight, for a message that failed
\* before
C17_Witness ==
    /\ pc = "sending"
    /\ send_attempt = max_attempts - 1
    /\ store[cur.id].retry_count >= 1

\* C18: a long poll that returns a non-empty payload whose message id is not
\* in the store adds exactly one row for it: PENDING, retry_count 0,
\* raw_content the payload as received, nothing parsed yet, whether or not the
\* payload mentions the agent; the rows already stored are left as they are.
C18_PayloadStoredPending ==
    [][\A messages \in Payloads :
          LET message_id == generate_message_id(messages, now) IN
          PollReturns(messages, MaxMsgsStore) /\ message_id \notin DOMAIN store
             => /\ DOMAIN store' = DOMAIN store \cup {message_id}
                /\ store'[message_id].status = "pending"
                /\ store'[message_id].retry_count = 0
                /\ store'[message_id].raw_content = messages
                /\ store'[message_id].parsed_mention = <<>>
                /\ store'[message_id].parsed_author = <<>>
                /\ store'[message_id].sender_handle = None
                /\ store'[message_id].created_at = now
                /\ plugin_calls'[message_id] = 0
                /\ \A i \in DOMAIN store : store'[i] = store[i]
      ]_vars

\* a payload without a mention of the agent has just been stored next to an
\* earlier row
C18_Witness ==
    /\ pc \in {"top", "reconnect_idle"}
    /\ \E i, j \in DOMAIN store :
          /\ i # j
          /\ store[i].raw_content = PayloadNoMention
          /\ store[i].status = "pending"
          /\ store[i].parsed_mention = <<>>
          /\ store[i].retry_count = 0
          /\ store[i].created_at = now

\* the payloads that carry no data
NoDataSentinels == {NoData, PayloadWaitTimeout}

\* C19: an empty long-poll result or a no-data sentinel payload (the
\* wait-timeout banner) is discarded by ingestion: no row of the store holds
\* it, and it is never the message handed to the plugin.
C19_NoDataDiscarded ==
    /\ \A i \in DOMAIN store : store[i].raw_content \notin NoDataSentinels
    /\ pc \in {"plugin", "send", "sending"}
          => cur.raw_content \notin NoDataSentinels

\* the stored messages whose text does not name the agent
NoMentionIds ==
    {i \in DOMAIN store :
        AgentHandle \notin {store[i].raw_content[k] :
                               k \in 1..Len(store[i].raw_content)}}

\* a drain pass has gone past message i in this step
DrainedInStep(i) ==
    /\ i \notin QueueIds(queue')
    /\ cur'.id # i
    /\ \/ i \in QueueIds(queue)
       \/ /\ pc \in {"top", "reconnect_health"}
          /\ pc' \in {"plugin", "poll"}
          /\ i \in pending_ids

\* C20 as stated: a stored message without a mention of the agent is marked
\* COMPLETED with the reason 'Not a mention for this agent' by the drain pass
\* that reaches it; it is never handed to the plugin or sent for, and its
\* retry_count stays as it was.
C20_NoMentionCompleted ==
    /\ [](\A i \in NoMentionIds :
            /\ store[i].status \in {"pending", "completed"}
            /\ store[i].status = "completed"
                  => store[i].error_message = "Not a mention for this agent"
            /\ store[i].retry_count = 0
            /\ plugin_calls[i] = 0
            /\ pc \in {"plugin", "send", "sending"} => cur.id # i)
    /\ [][\A i \in NoMentionIds :
            DrainedInStep(i) => store'[i].status = "completed"]_vars

\* C20, amended: the drain pass that reaches a stored message without a
\* mention of the agent marks it COMPLETED with the reason 'Not a mention for
\* this agent', unless the message is older than message_timeout by then:
\* that one is dead-lettered with the timeout reason.  Either way it is never
\* handed to the plugin or sent for, and its retry_count stays as it was.
C20_NoMentionCompletedOrTimedOut ==
    /\ [](\A i \in NoMentionIds :
            /\ store[i].status \in {"pending", "completed", "dead_letter"}
            /\ store[i].status = "completed"
                  => store[i].error_message = "Not a mention for this agent"
            /\ store[i].status = "dead_letter"
                  => store[i].error_message = "Message timeout (300s)"
            /\ store[i].retry_count = 0
            /\ plugin_calls[i] = 0
            /\ pc \in {"plugin", "send", "sending"} => cur.id # i)
    /\ [][\A i \in NoMentionIds :
            DrainedInStep(i)
               => store'[i].status =
                     IF now - store[i].created_at > message_timeout
                     THEN "dead_letter" ELSE "completed"]_vars

\* a message without a mention has just been completed by a drain pass that
\* then handed a later message to the plugin
C20_Witness ==
    /\ pc = "plugin"
    /\ \E i \in NoMentionIds :
          /\ store[i].status = "completed"
          /\ store[i].error_message = "Not a mention for this agent"
          /\ store[i].processed_at = now
          /\ store[i].created_at <= cur.created_at

\* the text ends with the penalty note
EndsWithPenalty(text) ==
    \E c \in {1, 3} :
        LET note == <<"NL">> \o penalty_note(c) IN
        /\ Len(text) >= Len(note)
        /\ SubSeq(text, Len(text) - Len(note) + 1, Len(text)) = note

\* C21: a response that holds the agent's own handle as a word-bounded token
\* (in any case) is dispatched without any such token and ends with the
\* penalty note; a response without such a token is dispatched unchanged.
C21_SelfMentionRemoved ==
    dispatched # <<>>
       => IF self_handle_search(response)
          THEN /\ ~self_handle_search(dispatched[1])
               /\ EndsWithPenalty(dispatched[1])
          ELSE dispatched[1] = response

\* C22: processed_at is set only on rows that are COMPLETED or DEAD_LETTER,
\* and a row that becomes (or is stored as) PENDING, PROCESSING or FAILED has
\* no processed_at.
C22_ProcessedAtOnlySettled ==
    /\ [](\A i \in DOMAIN store :
            store[i].processed_at # NoTime
               => store[i].status \in {"completed", "dead_letter"})
    /\ [][\A i \in DOMAIN store' :
            /\ store'[i].status \in {"pending", "processing", "failed"}
            /\ i \in DOMAIN store => store'[i].status # store[i].status
            => store'[i].processed_at = NoTime]_vars

\* a failed row without processed_at next to a settled row that has one,
\* while another attempt of a row that failed before is being processed
C22_Witness ==
    /\ \E i \in DOMAIN store :
          /\ store[i].status = "processing"
          /\ store[i].retry_count >= 1
          /\ store[i].processed_at = NoTime
    /\ \E j \in DOMAIN store :
          /\ store[j].status \in {"completed", "dead_letter"}
          /\ store[j].processed_at # NoTime

\* status, retry_count and error_message of every stored message stay as
\* they are in this step
MessagesUntouched ==
    /\ DOMAIN store' = DOMAIN store
    /\ \A i \in DOMAIN store :
          /\ store'[i].status = store[i].status
          /\ store'[i].retry_count = store[i].retry_count
          /\ store'[i].error_message = store[i].error_message

\* C23: a long poll that fails on the transport (it returns no data, or
\* never returns), a health probe however it ends, and a reconnect, up to the
\* point where run goes on, change no message's status, retry_count or
\* error_message; a message becomes FAILED, or gets a higher retry_count,
\* only when the plugin call or the send for that very message has failed.
C23_TransportErrorsTouchNoMessage ==
    [][/\ PollReturns(NoData, MaxMsgs) => MessagesUntouched
       /\ RequestHangs => MessagesUntouched
       /\ Health => MessagesUntouched
       /\ (\E outcome \in ConnectOutcomes : reliable_reconnect(outcome))
            /\ pc' \in {pc, "top", "hung", "crashed"}
          => MessagesUntouched
       /\ \A i \in DOMAIN store \cap DOMAIN store' :
             \/ store'[i].status = "failed" /\ store[i].status # "failed"
             \/ store'[i].retry_count # store[i].retry_count
             => /\ pc \in {"plugin", "sending"}
                /\ cur.id = i
                /\ store'[i].status = "failed"
                /\ store'[i].retry_count = store[i].retry_count + 1
      ]_vars

\* a health probe has just failed on the transport while a message waits in
\* the store, untouched
C23_Witness ==
    /\ last_probe = "raise"
    /\ hpc = "sleep"
    /\ consecutive_failures >= 1
    /\ \E i \in DOMAIN store :
          /\ store[i].status = "pending"
          /\ store[i].retry_count = 0
          /\ store[i].error_message = None

\* C24: while _process_single_message holds a message (the plugin call or
\* the send for it is awaited), the stored status of that message is
\* PROCESSING.
C24_ClaimedIsProcessing ==
    pc \in {"plugin", "send", "sending"}
       => /\ cur.id \in DOMAIN store
          /\ store[cur.id].status = "processing"

\* C25: when _maybe_recover_from_idle runs (after the long poll of an
\* iteration) and the time since the last ingested payload has reached the
\* recycle threshold max(120, message_timeout / 2), it reconnects and then
\* resets last_wait_success; below 90 seconds it changes nothing and run goes
\* on with its next iteration.
C25_IdleRecycleResets ==
    [][/\ pc = "polling" /\ pc' \notin {"polling", "hung"}
          => LET idle_seconds == now - last_wait_success' IN
             /\ idle_seconds >= Max(120, message_timeout \div 2)
                   => pc' = "reconnect_idle"
             /\ idle_seconds < 90 => pc' = "top"
       /\ pc = "reconnect_idle" /\ pc' # pc
          => /\ pc' = "top"
             /\ last_wait_success' = now
      ]_vars

\* C26: a long poll that waits its full timeout and returns no data does not
\* by itself make _maybe_recover_from_idle recycle the connection: the
\* recycle threshold is above the timeout asked of the long poll, so
\* when a recycle is due more time than one full long poll has passed since
\* the last ingested payload.
C26_RecycleAboveLongPoll ==
    pc = "reconnect_idle" => now - last_wait_success > long_poll_wait

\* C27: when run has returned or re-raised, the health-check, retry and
\* cleanup tasks have been cancelled and are over, and client.disconnect()
\* has been attempted.
C27_NoTaskOutlivesRun ==
    run_pc = "returned"
       => /\ \A t \in Tasks : task_state[t] = "done"
          /\ disconnect_attempted

RECURSIVE ClampedPower(_, _, _, _)
ClampedPower(power, k, attempt, cap) ==
    IF k = attempt \/ power >= cap
    THEN Min(power, cap)
    ELSE ClampedPower(power * multiplier, k + 1, attempt, cap)

\* c = min(base_delay * multiplier ^ attempt, max_delay), in milliseconds
ClampedDelay(attempt) ==
    ClampedPower(base_delay * 1000, 0, attempt, max_delay * 1000)

\* the delay returned for this attempt is in [0.1, 1.25 * max_delay] seconds
\* and within 25% of c, and is c when jitter is off
DelayAsSpecified(call, result) ==
    LET c == ClampedDelay(call.retry_count) IN
    /\ ~result.raised
    /\ result.delay >= 100
    /\ result.delay * 4 <= 5 * max_delay * 1000
    /\ (result.delay - c) * 4 <= c
    /\ (c - result.delay) * 4 <= c
    /\ ~call.jitter => result.delay = c

\* C29: for every attempt >= 0, get_delay(attempt) lies in
\* [0.1, 1.25 * max_delay] and within 25% of
\* c = min(base_delay * multiplier ^ attempt, max_delay), and equals c when
\* jitter is disabled; for attempt 10 that is around 300 seconds, not 1024.
C29_DelayWithinBounds ==
    backoff_call.retry_count >= 0
       => DelayAsSpecified(backoff_call, backoff_result)

\* the same for the attempts below 1024, where the power is a float
C29_DelayWithinBoundsBelowOverflow ==
    backoff_call.retry_count \in 0..(float_max_exponent - 1)
       => DelayAsSpecified(backoff_call, backoff_result)

\* attempt 10 with the largest jitter: 375 seconds
C29_Witness ==
    /\ backoff_call = [jitter |-> TRUE, retry_count |-> 10, u |-> 1]
    /\ backoff_result = [raised |-> FALSE, delay |-> 375000]

\* C30: in monitor_loop of the heartbeat monitor a payload whose sender
\* _extract_sender resolves to @unknown is stored and marked COMPLETED with
\* the note 'No valid mention detected', and neither the plugin nor a send
\* request is issued for it.
C30_UnknownSenderSkipped ==
    \A mid \in seen_ids :
       lower_tok(extract_sender(mid, agent_name).sender) = Tok(TRUE, "unknown")
          => /\ mid \in DOMAIN hm_store
             /\ hm_store[mid].status = "completed"
             /\ hm_store[mid].error_message = "No valid mention detected"
             /\ hm_store[mid].processed_at # NoTime
             /\ mid \notin hm_plugin_calls
             /\ mid \notin hm_sends

\* a payload with an @unknown sender was completed with the note, and the
\* plugin and the send were used for another payload
C30_Witness ==
    /\ \E mid \in DOMAIN hm_store :
          /\ lower_tok(hm_store[mid].sender_handle) = Tok(TRUE, "unknown")
          /\ hm_store[mid].error_message = "No valid mention detected"
    /\ hm_plugin_calls # {}
    /\ hm_sends # {}

\* C31: within one run of monitor_loop a payload whose id is already in
\* seen_ids is skipped: each distinct payload is stored, given to the plugin
\* and answered at most once, however often the long poll returns it.
C31_SeenPayloadOnce ==
    [][/\ HmPlugin => hm_cur \notin hm_plugin_calls
       /\ (\E sent \in BOOLEAN : HmSend(sent)) => hm_cur \notin hm_sends
       /\ \A mid \in DOMAIN hm_store :
             /\ hm_store'[mid].status = "processing"
                   => hm_store[mid].status = "processing"
             /\ mid \in seen_ids
       /\ \A mid \in DOMAIN hm_store' \ DOMAIN hm_store : mid \notin seen_ids
      ]_vars

\* the long poll has returned two payloads, only one is in seen_ids and it
\* was answered: the second one was the first one again
C31_Witness ==
    /\ hm_received = 2
    /\ Cardinality(seen_ids) = 1
    /\ hm_sends = seen_ids
    /\ hm_pc = "wait"

\* C32: once mark_processing_started was called for a message,
\* get_pending_messages does not hand it out again before it is marked
\* processed, so no two consumers process the same message.
C32_NoDuplicateProcessing ==
    /\ [](\A c1, c2 \in Consumers :
            c1 # c2 => working[c1] \cap working[c2] = {})
    /\ [][\A c \in Consumers :
            BacklogGetPending(c)
               => \A id \in handed'[c] :
                     backlog[id].processing_started_at = NoTime]_vars

\* C33: parse_verdict never raises; for a judge text without a parseable
\* JSON object it returns the winner UNCERTAIN with confidence 0.0; for every
\* input the winner is one of A, B, TIE, UNCERTAIN and the confidence lies
\* in [0, 1].
C33_VerdictWellFormed ==
    /\ verdict.raised = ""
    /\ judge_text.block \in {"none", "not_json"}
          => verdict.winner = "UNCERTAIN" /\ verdict.confidence = 0
    /\ judge_text.block # "no call"
          => /\ verdict.winner \in {"A", "B", "TIE", "UNCERTAIN"}
             /\ verdict.confidence \in 0..100

\* the same for the judge texts whose confidence is not an integer too large
\* for a float
C33_VerdictWellFormedBelowOverflow ==
    (judge_text.block = "object"
        => judge_text.confidence.type # "big_int")
       => C33_VerdictWellFormed

\* C34: a message that was PROCESSING when the process stopped is picked up
\* again after the restart: the drain pass of run takes it up (it is
\* re-processed, dead-lettered, or waits in the list of that pass), so no
\* message stays PROCESSING forever.
C34_ProcessingPickedUp ==
    [][LoopTop /\ is_healthy
         => \A i \in DOMAIN store :
               store[i].status = "processing"
                  => \/ store'[i].status # "processing"
                     \/ cur'.id = i
                     \/ \E k \in 1..Len(queue') : queue'[k].id = i]_vars

\* C35: a message becomes DEAD_LETTER only when, at that moment of the drain
\* pass, its retry_count has reached max_retries or its age is above
\* message_timeout, and every DEAD_LETTER message carries the error_message
\* that names the reason that applied.
C35_DeadLetterHasReason ==
    /\ [](\A i \in DOMAIN store :
            store[i].status = "dead_letter"
               => store[i].error_message
                     \in {"Exceeded max retries (5)", "Message timeout (300s)"})
    /\ [][\A i \in DOMAIN store \cap DOMAIN store' :
            store[i].status # "dead_letter" /\ store'[i].status = "dead_letter"
               => \/ /\ store[i].retry_count >= max_retries
                     /\ store'[i].error_message = "Exceeded max retries (5)"
                  \/ /\ now - store[i].created_at > message_timeout
                     /\ store'[i].error_message = "Message timeout (300s)"
      ]_vars

\* one message was dead-lettered for its retries and another for its age
C35_Witness ==
    \E i, j \in DOMAIN store :
       /\ store[i].status = "dead_letter"
       /\ store[i].error_message = "Exceeded max retries (5)"
       /\ store[j].status = "dead_letter"
       /\ store[j].error_message = "Message timeout (300s)"

\* C36: once a message is COMPLETED, no step of the control loop, the retry
\* sweep or the ingestion changes its status or its retry_count or gives it
\* to the plugin or the send again, whatever the interleaving; its row only
\* disappears when the retention cleanup deletes it.
C36_CompletedTerminal ==
    [][\A i \in DOMAIN store :
          store[i].status = "completed"
             => /\ cur'.id # i
                /\ plugin_calls'[i] = plugin_calls[i]
                /\ IF i \in DOMAIN store'
                   THEN /\ store'[i].status = "completed"
                        /\ store'[i].retry_count = store[i].retry_count
                   ELSE Cleanup /\ i \in expired_messages]_vars

\* a later drain pass has taken up another message while a completed one is
\* in the store
C36_Witness ==
    \E i, j \in DOMAIN store :
       /\ store[i].status = "completed"
       /\ store[i].created_at <= store[j].created_at
       /\ pc = "plugin" /\ cur.id = j
====
